---- MODULE Spec2Model ----
(***************************************************************************)
(* Model of the simulation core of the geometry shooter: the collision     *)
(* engine (game/collision.rs), the combat handlers (entities/enemy.rs,     *)
(* entities/boss.rs, entities/player.rs), the boss phase machine and the   *)
(* weapon inventory (entities/weapons.rs).                                 *)
(*                                                                         *)
(* Numbers: positions, radii and speeds are integers in pixel units; f32   *)
(* rounding is not modelled.  Halved widths are avoided by comparing in    *)
(* doubled coordinates.  One frame lasts Delta time units.                 *)
(*                                                                         *)
(* Scheduling: the Update systems of one frame carry no ordering           *)
(* constraint between them (no .chain(), .before() or .after() anywhere in *)
(* the plugins), so within a frame they run in any order; `ran` holds the  *)
(* systems that have run in the current frame.  Commands (despawn) are     *)
(* deferred: they are queued in `cmds` and applied when the frame ends.    *)
(***************************************************************************)
EXTENDS Integers, Sequences, FiniteSets, TLC

VARIABLES
    world,       \* entity id -> components (the ECS world)
    msgs,        \* Messages<CollisionEvent>: events of this and the previous frame
    cmds,        \* queued Commands: despawns and spawns, applied when the frame ends
    game_data,   \* GameData resource
    boss_state,  \* BossState resource
    ran,         \* Update systems that have run in the current frame
    gates,       \* plugins whose run condition was evaluated (to true) in the current frame
    frame,       \* number of frames completed
    hitlog,      \* history: per projectile, the targets it damaged by a direct hit
    inventory,   \* WeaponInventory of the player
    cooldown,    \* ShootCooldown.timer of the player
    fired,       \* history: what the last auto_shoot_weapons run spawned
    calls,       \* history: number of add_or_upgrade calls and the weapon types they named
    sched,       \* the Update systems whose interleavings the specification explores
    spawn_timer, \* EnemySpawnTimer resource
    next_state,  \* NextState<GameState>: the transition queued for the next frame
    player_hits, \* history: shield and lives before and after every hit the player took
    state,       \* State<GameState>
    save_data,   \* SaveData resource
    run_bosses,  \* history: the boss levels whose boss the current run has been given
    recharge     \* RechargeState, the two queues of the JS bridge, the recharge messages

vars == <<world, msgs, cmds, game_data, boss_state, ran, gates, frame, hitlog,
          inventory, cooldown, fired, calls, sched, spawn_timer, run_bosses, recharge,
          next_state, player_hits, state, save_data>>

----------------------------------------------------------------------------
(* Bounds of the model *)

NumColliders == 3      \* entities in the collision-engine scenarios
MaxUpgradeCalls == 7   \* add_or_upgrade calls explored in one run
TimerFloor == 400      \* auto_shoot_weapons is explored while ShootCooldown.timer > -TimerFloor

(* Program constants *)

PierceInf == 2147483647        \* stands for u32::MAX, the "infinite" sentinel of Pierce (the largest integer of the checker)
MaxWeapons == 5
MaxWeaponLevel == 5

----------------------------------------------------------------------------
(* Small helpers *)

Max(a, b) == IF a >= b THEN a ELSE b
Min(a, b) == IF a <= b THEN a ELSE b
Clamp(v, lo, hi) == IF v < lo THEN lo ELSE IF v > hi THEN hi ELSE v

RECURSIVE ISqrtFrom(_, _)
ISqrtFrom(n, r) == IF (r + 1) * (r + 1) > n THEN r ELSE ISqrtFrom(n, r + 1)
ISqrt(n) == ISqrtFrom(n, 0)

DistSq(a, b) == (a[1] - b[1]) * (a[1] - b[1]) + (a[2] - b[2]) * (a[2] - b[2])

----------------------------------------------------------------------------
(* game/collision.rs *)

CollisionLayers == {"Player", "PlayerBullet", "Enemy", "EnemyBullet", "PowerUp"}

Mask(p, pb, e, eb, pu) ==
    [player |-> p, player_bullet |-> pb, enemy |-> e, enemy_bullet |-> eb, power_up |-> pu]

default_mask       == Mask(TRUE, TRUE, TRUE, TRUE, TRUE)
player_mask        == Mask(FALSE, FALSE, TRUE, TRUE, TRUE)
player_bullet_mask == Mask(FALSE, FALSE, TRUE, FALSE, FALSE)
enemy_mask         == Mask(TRUE, TRUE, FALSE, FALSE, FALSE)
enemy_bullet_mask  == Mask(TRUE, FALSE, FALSE, FALSE, FALSE)
aura_mask          == [player_bullet_mask EXCEPT !.enemy_bullet = TRUE]

can_collide_with_all(mask, layer) == TRUE

can_collide_with(mask, layer) ==
    CASE layer = "Player"       -> mask.player
      [] layer = "PlayerBullet" -> mask.player_bullet
      [] layer = "Enemy"        -> mask.enemy
      [] layer = "EnemyBullet"  -> mask.enemy_bullet
      [] layer = "PowerUp"      -> mask.power_up

Circle(r)       == [type |-> "Circle", radius |-> r, width |-> 0, height |-> 0, vertices |-> <<>>]
Rectangle(w, h) == [type |-> "Rectangle", radius |-> 0, width |-> w, height |-> h, vertices |-> <<>>]
Polygon(vs)     == [type |-> "Polygon", radius |-> 0, width |-> 0, height |-> 0, vertices |-> vs]

circle_circle_collision(pos_a, r_a, pos_b, r_b) ==
    LET radius_sum == r_a + r_b
    IN  DistSq(pos_a, pos_b) <= radius_sum * radius_sum

\* all lengths doubled, so that width / 2 stays an integer
circle_rect_collision(circle_pos, radius, rect_pos, width, height) ==
    LET cx == 2 * circle_pos[1]
        cy == 2 * circle_pos[2]
        closest_x == Clamp(cx, 2 * rect_pos[1] - width, 2 * rect_pos[1] + width)
        closest_y == Clamp(cy, 2 * rect_pos[2] - height, 2 * rect_pos[2] + height)
        distance_sq == (cx - closest_x) * (cx - closest_x) + (cy - closest_y) * (cy - closest_y)
    IN  distance_sq <= 4 * radius * radius

rect_rect_collision(pos_a, w_a, h_a, pos_b, w_b, h_b) ==
    /\ 2 * pos_a[1] - w_a < 2 * pos_b[1] + w_b
    /\ 2 * pos_a[1] + w_a > 2 * pos_b[1] - w_b
    /\ 2 * pos_a[2] - h_a < 2 * pos_b[2] + h_b
    /\ 2 * pos_a[2] + h_a > 2 * pos_b[2] - h_b

RECURSIVE MaxNormSq(_)
MaxNormSq(vs) ==
    IF vs = <<>> THEN 0
    ELSE Max(Head(vs)[1] * Head(vs)[1] + Head(vs)[2] * Head(vs)[2], MaxNormSq(Tail(vs)))

\* the model's polygons have vertices of integer norm, for which the root is exact
polygon_bounding_radius(vertices) == ISqrt(MaxNormSq(vertices))

check_collision(pos_a, shape_a, pos_b, shape_b) ==
    CASE shape_a.type = "Circle" /\ shape_b.type = "Circle" ->
            circle_circle_collision(pos_a, shape_a.radius, pos_b, shape_b.radius)
      [] shape_a.type = "Circle" /\ shape_b.type = "Rectangle" ->
            circle_rect_collision(pos_a, shape_a.radius, pos_b, shape_b.width, shape_b.height)
      [] shape_a.type = "Rectangle" /\ shape_b.type = "Circle" ->
            circle_rect_collision(pos_b, shape_b.radius, pos_a, shape_a.width, shape_a.height)
      [] shape_a.type = "Rectangle" /\ shape_b.type = "Rectangle" ->
            rect_rect_collision(pos_a, shape_a.width, shape_a.height,
                                pos_b, shape_b.width, shape_b.height)
      [] shape_a.type = "Polygon" /\ shape_b.type = "Polygon" ->
            circle_circle_collision(pos_a, polygon_bounding_radius(shape_a.vertices),
                                    pos_b, polygon_bounding_radius(shape_b.vertices))
      [] shape_a.type = "Polygon" /\ shape_b.type = "Circle" ->
            circle_circle_collision(pos_a, polygon_bounding_radius(shape_a.vertices),
                                    pos_b, shape_b.radius)
      [] shape_a.type = "Circle" /\ shape_b.type = "Polygon" ->
            circle_circle_collision(pos_a, shape_a.radius,
                                    pos_b, polygon_bounding_radius(shape_b.vertices))
      [] shape_a.type = "Polygon" /\ shape_b.type = "Rectangle" ->
            circle_rect_collision(pos_a, polygon_bounding_radius(shape_a.vertices),
                                  pos_b, shape_b.width, shape_b.height)
      [] shape_a.type = "Rectangle" /\ shape_b.type = "Polygon" ->
            circle_rect_collision(pos_b, polygon_bounding_radius(shape_b.vertices),
                                  pos_a, shape_a.width, shape_a.height)

(* One element of the query Query<(Entity, &Transform, &Collider)> *)
NoPierce == 0 - 1      \* the entity has no Pierce component

Blank ==
    [kind |-> "none", pos |-> <<0, 0>>, vel |-> <<0, 0>>,
     collider |-> FALSE, shape |-> Circle(0), layer |-> "Enemy", mask |-> default_mask,
     health |-> 0, max_health |-> 0, score_value |-> 0,
     damage |-> 0, wtype |-> "none", pierce |-> NoPierce, hitlist |-> FALSE, hits |-> {},
     rocket |-> FALSE, explosion_radius |-> 0, lifetime |-> 0,
     phase |-> 0, entered |-> FALSE, attack_timer |-> 0, move_timer |-> 0,
     jumps |-> 0, range |-> 0,
     invincible |-> FALSE, invincible_timer |-> 0, power_type |-> "none",
     options |-> {},
     scrollable |-> FALSE, enemy_type |-> "none", movement |-> "none", shoot_timer |-> 0, shoot_interval |-> 0,
     pierce0 |-> NoPierce]     \* history: Pierce.remaining when the entity was spawned

Exists(w, id) == id \in DOMAIN w /\ w[id].kind # "none"

RECURSIVE ColliderQueryFrom(_, _)
ColliderQueryFrom(w, id) ==
    IF id \notin DOMAIN w THEN <<>>
    ELSE (IF Exists(w, id) /\ w[id].collider THEN <<id>> ELSE <<>>)
         \o ColliderQueryFrom(w, id + 1)

\* query.iter().collect(): the entities that have a Collider, in id order
ColliderQuery(w) == ColliderQueryFrom(w, 1)

CollisionEvent(w, a, b) ==
    [entity_a |-> a, entity_b |-> b, layer_a |-> w[a].layer, layer_b |-> w[b].layer]

InnerStartSelf(i) == i

\* for j in (i + 1)..entities.len()
InnerStart(i) == i + 1

RECURSIVE DetectFrom(_, _, _, _)
DetectFrom(w, entities, i, j) ==
    IF i > Len(entities) THEN <<>>
    ELSE IF j > Len(entities) THEN DetectFrom(w, entities, i + 1, InnerStart(i + 1))
    ELSE LET a == entities[i]
             b == entities[j]
             skip == /\ ~can_collide_with(w[a].mask, w[b].layer)
                     /\ ~can_collide_with(w[b].mask, w[a].layer)
             hit == check_collision(w[a].pos, w[a].shape, w[b].pos, w[b].shape)
         IN  (IF ~skip /\ hit THEN <<CollisionEvent(w, a, b)>> ELSE <<>>)
             \o DetectFrom(w, entities, i, j + 1)

\* the events one run of detect_collisions writes
DetectEvents(w) == DetectFrom(w, ColliderQuery(w), 1, InnerStart(1))

----------------------------------------------------------------------------
(* Messages<CollisionEvent>: a message stays readable in the frame it was   *)
(* written (age 0) and in the following frame (age 1); every MessageReader  *)
(* keeps its own cursor, recorded here as the set of readers that have      *)
(* read the message.                                                        *)

Message(ev) == [ev |-> ev, age |-> 0, readBy |-> {}]

RECURSIVE MapMessage(_)
MapMessage(evs) == IF evs = <<>> THEN <<>> ELSE <<Message(Head(evs))>> \o MapMessage(Tail(evs))

not_upgrading == ~game_data.upgrading

\* the plugin whose build() adds the system
PluginOf(sys) ==
    CASE sys = "detect_collisions" -> "CollisionPlugin"
      [] sys \in {"update_weapon_bullets", "update_rocket_bullets", "resolve_lightning_casts"}
            -> "PlayerPlugin"
      [] sys \in {"spawn_enemies", "enemy_collision_handler"} -> "EnemyPlugin"
      [] sys \in {"check_boss_spawn", "boss_behavior", "boss_collision_handler"} -> "BossPlugin"
      [] sys = "update_scrollable_entities" -> "ScrollPlugin"
      [] sys \in {"update_game_time", "handle_pause_input"} -> "GameStatePlugin"
      [] sys \in {"check_level_up", "handle_upgrade_selection"} -> "UpgradePlugin"
      [] sys \in {"drain_js_bridge_commands", "process_recharge_events",
                  "drain_recharge_results", "handle_recharge_result"} -> "RechargePlugin"
      [] sys \in {"player_collision_handler", "update_invincibility"} -> "PlayerPlugin"
      [] OTHER -> "MenuPlugin"

\* the state of the system's in_state(..) run condition
RunState(sys) ==
    CASE sys \in {"menu_button_system", "menu_upgrade_button_system", "menu_keyboard_start"}
            -> "Menu"
      [] sys = "game_over_button_system" -> "GameOver"
      [] sys \in {"pause_button_system", "handle_unpause_input"} -> "Paused"
      [] sys \in {"drain_js_bridge_commands", "process_recharge_events",
                  "drain_recharge_results", "handle_recharge_result"} -> "Recharge"
      [] OTHER -> "Playing"

\* the plugins whose Update systems run under in_state(..) alone
UngatedPlugins ==
    {"ScrollPlugin", "GameStatePlugin", "UpgradePlugin", "MenuPlugin", "RechargePlugin"}

\* (systems).run_if(in_state(GameState::Playing)).run_if(not_upgrading): the condition
\* of a plugin's tuple is evaluated once per frame, when the first system of the tuple
\* is about to run, and its result holds for the whole tuple in that frame.
GateOpen(sys) ==
    PluginOf(sys) \in UngatedPlugins \/ PluginOf(sys) \in gates \/ not_upgrading
CanRun(sys) == state = RunState(sys) /\ sys \in sched /\ sys \notin ran /\ GateOpen(sys)

\* the systems of the combat scenarios
Systems ==
    {"detect_collisions", "update_weapon_bullets", "update_rocket_bullets",
     "resolve_lightning_casts", "enemy_collision_handler", "boss_behavior",
     "boss_collision_handler"}

\* EnemySpawnTimer::default(), in milliseconds
EnemySpawnTimerDefault == [timer |-> 0, interval |-> 1500]

combatVars == <<cmds, game_data, boss_state, frame, hitlog>>
weaponVars == <<inventory, cooldown, fired, calls>>
playerVars == <<next_state, player_hits>>
menuVars == <<state, save_data>>
extraVars == <<sched, run_bosses, recharge, spawn_timer, playerVars, menuVars>>

\* RechargeState::default() and what surrounds it in the web build: the command and
\* result queues of the JS bridge (JS_RECHARGE_COMMANDS, JS_RECHARGE_RESULTS), the
\* unread RechargeEvent and RechargeResultEvent messages (each has one reader), the
\* requests whose response is still to come, and the history of what was submitted,
\* sent, pushed on the result queue and handled
RechargeDefault ==
    [is_processing |-> FALSE, commands |-> <<>>, events |-> <<>>, pending |-> 0,
     results |-> <<>>, result_events |-> <<>>,
     submitted |-> 0, sent |-> 0, pushed |-> 0, handled |-> 0]

\* #[derive(Default)] SaveData, as far as the game reads it
SaveDataDefault ==
    [high_score |-> 0, total_coins |-> 0, hull_upgrade_level |-> 0, shield_upgrade_level |-> 0]

\* a run is on; nothing has been bought
InitSave ==
    /\ state = "Playing"
    /\ save_data = SaveDataDefault

\* no transition queued, no hit taken
InitPlayer ==
    /\ next_state = "none"
    /\ player_hits = <<>>

\* the variables the combat scenarios leave at their initial values
InitExtra ==
    /\ sched = Systems
    /\ recharge = RechargeDefault
    /\ run_bosses = {}
    /\ spawn_timer = EnemySpawnTimerDefault
    /\ InitPlayer
    /\ InitSave

detect_collisions ==
    /\ CanRun("detect_collisions")
    /\ msgs' = msgs \o MapMessage(DetectEvents(world))
    /\ ran' = ran \cup {"detect_collisions"}
    /\ gates' = gates \cup {PluginOf("detect_collisions")}
    /\ UNCHANGED <<world, combatVars, weaponVars, extraVars>>

----------------------------------------------------------------------------
(* GameData::new() and the resources as the plugins insert them *)

GameDataNew ==
    [score |-> 0, high_score |-> 0, coins |-> 0, lives |-> 3, max_lives |-> 5,
     shield |-> 0, max_shield |-> 3, play_time |-> 0, experience |-> 0, player_level |-> 1,
     upgrading |-> FALSE]

BossStateDefault ==
    [active |-> FALSE, last_boss_level |-> 0, total_health |-> 0, current_health |-> 0]

WeaponInventoryNew == [weapons |-> <<>>, has_default_bullet |-> TRUE]

\* the Commands queued in the current frame: despawns and spawns
NoCommands == [despawn |-> {}, spawn |-> <<>>]

NothingFired ==
    [ran |-> FALSE, elapsed |-> FALSE, bullets |-> 0, bullet_damage |-> 0, pellets |-> 0,
     rockets |-> 0, lasers |-> 0, missiles |-> 0, casts |-> 0, beams |-> 0]

NoCalls == [n |-> 0, types |-> {}]

----------------------------------------------------------------------------
(* Specification of the collision engine alone: a frame's colliders are     *)
(* drawn from the layer/mask pairs the spawn functions build and from the   *)
(* three shape variants, and detect_collisions runs on them.                *)

CollidePositions == {<<0, 0>>, <<2, 0>>, <<5, 0>>}
CollideShapes ==
    {Circle(1), Rectangle(2, 2), Polygon(<< <<0, 1>>, <<0 - 1, 0>>, <<0, 0 - 1>>, <<1, 0>> >>)}
CollideLayerMasks ==
    {<<"PlayerBullet", player_bullet_mask>>, <<"Enemy", enemy_mask>>, <<"PowerUp", default_mask>>}

CollideEntities ==
    {[Blank EXCEPT !.kind = "generic", !.pos = p, !.collider = TRUE, !.shape = s,
                   !.layer = lm[1], !.mask = lm[2]] :
        p \in CollidePositions, s \in CollideShapes, lm \in CollideLayerMasks}
    \cup {[Blank EXCEPT !.kind = "generic"]}

InitCollide ==
    /\ world \in [1..NumColliders -> CollideEntities]
    /\ msgs = <<>>
    /\ cmds = NoCommands
    /\ game_data = GameDataNew
    /\ boss_state = BossStateDefault
    /\ ran = {}
    /\ gates = {}
    /\ frame = 0
    /\ hitlog = <<>>
    /\ inventory = WeaponInventoryNew
    /\ cooldown = 0
    /\ fired = NothingFired
    /\ calls = NoCalls
    /\ InitExtra

NextCollide == detect_collisions

SpecCollide == InitCollide /\ [][NextCollide]_vars

----------------------------------------------------------------------------
(* entities/weapons.rs: Weapon and WeaponInventory.  Times are in           *)
(* milliseconds, so that every cooldown of the table is an integer.         *)

WeaponTypes == {"Shotgun", "Rocket", "Laser", "Homing", "Lightning", "Aura", "Beam"}

base_cooldown(weapon_type) ==
    CASE weapon_type = "Shotgun"   -> 150
      [] weapon_type = "Rocket"    -> 600
      [] weapon_type = "Laser"     -> 250
      [] weapon_type = "Homing"    -> 150
      [] weapon_type = "Lightning" -> 500
      [] weapon_type = "Aura"      -> 0
      [] weapon_type = "Beam"      -> 2000

WeaponNew(weapon_type) ==
    [weapon_type |-> weapon_type, level |-> 1, cooldown |-> base_cooldown(weapon_type),
     timer |-> 0]

level_up_uncapped(weapon) ==
    [weapon EXCEPT !.level = weapon.level + 1,
                   !.cooldown = (base_cooldown(weapon.weapon_type) * (10 - weapon.level)) \div 10]

level_up(weapon) ==
    IF weapon.level < MaxWeaponLevel
    THEN [weapon EXCEPT !.level = weapon.level + 1,
                        \* base * (1.0 - 0.1 * (level - 1)), with the new level
                        !.cooldown = (base_cooldown(weapon.weapon_type) * (10 - weapon.level)) \div 10]
    ELSE weapon

\* index of the weapon of that type, 0 when there is none (get_weapon_mut)
get_weapon_index(inv, weapon_type) ==
    IF \E k \in DOMAIN inv.weapons : inv.weapons[k].weapon_type = weapon_type
    THEN CHOOSE k \in DOMAIN inv.weapons :
            /\ inv.weapons[k].weapon_type = weapon_type
            /\ \A m \in DOMAIN inv.weapons : inv.weapons[m].weapon_type = weapon_type => k <= m
    ELSE 0

clears_default_always(inv, weapon_type) == inv.has_default_bullet

\* if self.has_default_bullet && weapon_type != WeaponType::Aura
clears_default(inv, weapon_type) == inv.has_default_bullet /\ weapon_type # "Aura"

add_or_upgrade(inv, weapon_type) ==
    LET flag == IF clears_default(inv, weapon_type) THEN FALSE ELSE inv.has_default_bullet
        k == get_weapon_index(inv, weapon_type)
        weapons ==
            IF k # 0 THEN [inv.weapons EXCEPT ![k] = level_up(inv.weapons[k])]
            ELSE IF Len(inv.weapons) < MaxWeapons
                 THEN Append(inv.weapons, WeaponNew(weapon_type))
                 ELSE inv.weapons
    IN  [weapons |-> weapons, has_default_bullet |-> flag]

----------------------------------------------------------------------------
(* entities/player.rs: auto_shoot_weapons *)

ShootCooldownCooldown == 150     \* config.shoot_cooldown

pellet_count_flat(level) == 2

\* spawn_shotgun_pellets: pellet_count = 2 + (level - 1) * 2
pellet_count(level) == 2 + (level - 1) * 2

\* what one weapon whose timer has elapsed spawns
WeaponShot(f, weapon, has_target) ==
    CASE weapon.weapon_type = "Shotgun"   -> [f EXCEPT !.pellets = @ + pellet_count(weapon.level)]
      [] weapon.weapon_type = "Rocket"    -> [f EXCEPT !.rockets = @ + weapon.level]
      [] weapon.weapon_type = "Laser"     -> [f EXCEPT !.lasers = @ + 1 + (weapon.level - 1) \div 2]
      [] weapon.weapon_type = "Homing"    -> [f EXCEPT !.missiles = @ + weapon.level]
      [] weapon.weapon_type = "Lightning" -> IF has_target THEN [f EXCEPT !.casts = @ + 1] ELSE f
      [] weapon.weapon_type = "Aura"      -> f
      [] weapon.weapon_type = "Beam"      -> [f EXCEPT !.beams = @ + 1]

RECURSIVE FireWeapons(_, _, _, _)
\* for weapon in inventory.weapons.iter_mut(): fire and reset the weapons whose timer elapsed
FireWeapons(weapons, k, f, has_target) ==
    IF k > Len(weapons) THEN [weapons |-> weapons, fired |-> f]
    ELSE IF weapons[k].timer <= 0
         THEN FireWeapons([weapons EXCEPT ![k].timer = weapons[k].cooldown], k + 1,
                          WeaponShot(f, weapons[k], has_target), has_target)
         ELSE FireWeapons(weapons, k + 1, f, has_target)

default_branch_always(inv) == TRUE

\* if inventory.weapons.is_empty() || inventory.has_default_bullet
default_branch(inv) == inv.weapons = <<>> \/ inv.has_default_bullet

AutoShoot(inv, cd, delta, has_target) ==
    LET cd1 == cd - delta
        ticked == [k \in DOMAIN inv.weapons |-> [inv.weapons[k] EXCEPT !.timer = @ - delta]]
        shoots == default_branch(inv) /\ cd1 <= 0
        f0 == [NothingFired EXCEPT !.ran = TRUE, !.elapsed = (cd1 <= 0),
                                   !.bullets = IF shoots THEN 1 ELSE 0,
                                   \* spawn_player_bullet: Bullet { damage: 1, .. }
                                   !.bullet_damage = IF shoots THEN 1 ELSE 0]
        cd2 == IF shoots THEN ShootCooldownCooldown ELSE cd1
        res == IF inv.weapons = <<>>
               THEN [weapons |-> ticked, fired |-> f0]
               ELSE FireWeapons(ticked, 1, f0, has_target)
    IN  [inventory |-> [inv EXCEPT !.weapons = res.weapons], cooldown |-> cd2,
         fired |-> res.fired]

gameVars == <<world, msgs, ran, gates, combatVars, extraVars>>

Deltas == {100}      \* frame durations, in milliseconds

auto_shoot_weapons ==
    /\ ~game_data.upgrading
    /\ cooldown > 0 - TimerFloor
    /\ \E delta \in Deltas, has_target \in BOOLEAN :
        LET r == AutoShoot(inventory, cooldown, delta, has_target)
        IN  /\ inventory' = r.inventory
            /\ cooldown' = r.cooldown
            /\ fired' = r.fired
    /\ UNCHANGED <<calls, gameVars>>

\* handle_upgrade_selection, UpgradeChoice::Weapon: inventory.add_or_upgrade(weapon_type)
SelectWeapon(types) ==
    /\ calls.n < MaxUpgradeCalls
    /\ \E weapon_type \in types :
        /\ inventory' = add_or_upgrade(inventory, weapon_type)
        /\ calls' = [n |-> calls.n + 1, types |-> calls.types \cup {weapon_type}]
    /\ fired' = NothingFired
    /\ UNCHANGED <<cooldown, gameVars>>

\* any sequence of add_or_upgrade calls
select_weapon == SelectWeapon(WeaponTypes)

\* the weapon types offered in the auto-fire scenarios
ShootTypes == {"Shotgun", "Aura", "Laser"}

acquire_weapon == SelectWeapon(ShootTypes)

\* spawn_player: WeaponInventory::new(), ShootCooldown { timer: 0.0, .. }
InitWeapons ==
    /\ world = <<>>
    /\ msgs = <<>>
    /\ cmds = NoCommands
    /\ game_data = GameDataNew
    /\ boss_state = BossStateDefault
    /\ ran = {}
    /\ gates = {}
    /\ frame = 0
    /\ hitlog = <<>>
    /\ inventory = WeaponInventoryNew
    /\ cooldown = 0
    /\ fired = NothingFired
    /\ calls = NoCalls
    /\ InitExtra

NextInventory == select_weapon

SpecInventory == InitWeapons /\ [][NextInventory]_vars

NextShoot == acquire_weapon \/ auto_shoot_weapons

SpecShoot == InitWeapons /\ [][NextShoot]_vars

----------------------------------------------------------------------------
(* game/states.rs: GameData.  Scores and experience stay far below 2^32 in  *)
(* the scenarios explored, so the u32 width is not modelled.                *)

\* (1300.0 * (level as f32).powf(1.5)) as u32, tabulated in f32 arithmetic
ExpTable ==
    <<1300, 3676, 6754, 10400, 14534, 19106, 24076, 29415, 35100, 41109, 47427, 54039>>

exp_for_level(level) == ExpTable[level]

add_score_only(gd, points) ==
    [gd EXCEPT !.score = gd.score + points,
               !.high_score = Max(gd.high_score, gd.score + points)]

add_experience(gd, exp) ==
    LET experience == gd.experience + exp
        required == exp_for_level(gd.player_level)
    IN  IF experience >= required
        THEN [gd EXCEPT !.experience = experience - required,
                        !.player_level = gd.player_level + 1,
                        !.upgrading = TRUE]
        ELSE [gd EXCEPT !.experience = experience]

add_score(gd, points) == add_experience(add_score_only(gd, points), points)

----------------------------------------------------------------------------
(* The entities of the combat scenarios, built as the spawn functions build *)
(* them.  Speeds are in pixels per second, times in milliseconds.  Entities *)
(* that are only drawn (hit sparks, explosion shards, the lightning         *)
(* polyline) carry no gameplay component and are left out.                  *)

WindowWidth == 480
WindowHeight == 720
BulletSpeed == 500

\* spawn_player_bullet
PlayerBullet(pos) ==
    [Blank EXCEPT !.kind = "bullet", !.pos = pos, !.vel = <<0, BulletSpeed>>,
                  !.collider = TRUE, !.shape = Circle(6),
                  !.layer = "PlayerBullet", !.mask = player_bullet_mask, !.damage = 1]

\* spawn_shotgun_pellets: the right-hand pellet of a level-1 Shotgun (spread of 10 degrees)
ShotgunPellet(pos) ==
    [Blank EXCEPT !.kind = "weapon_bullet", !.wtype = "Shotgun", !.pos = pos,
                  !.vel = <<87, 492>>, !.collider = TRUE, !.shape = Circle(6),
                  !.layer = "PlayerBullet", !.mask = player_bullet_mask,
                  !.damage = 1, !.lifetime = 1600]

\* A WeaponBullet with Pierce { remaining: n }, n finite, and optionally a HitList.
\* No spawn function of weapons.rs inserts a finite Pierce: this is the input of the
\* finite branch of the handlers (enemy.rs 587-593, boss.rs 924-927).
PiercingBullet(pos, n, with_hit_list) ==
    [ShotgunPellet(pos) EXCEPT !.vel = <<0, BulletSpeed>>, !.pierce = n, !.pierce0 = n,
                               !.hitlist = with_hit_list]

\* spawn_laser: width 4.0 + 0.7 * level, rounded to whole pixels
LaserBeam(pos, level) ==
    [Blank EXCEPT !.kind = "weapon_bullet", !.wtype = "Laser", !.pos = pos,
                  !.vel = <<0, 600>>, !.collider = TRUE,
                  !.shape = Rectangle(4 + (7 * level + 5) \div 10, 150),
                  !.layer = "PlayerBullet", !.mask = player_bullet_mask,
                  !.damage = 2 + level, !.lifetime = 2000,
                  !.pierce = PierceInf, !.pierce0 = PierceInf, !.hitlist = TRUE]

\* spawn_rocket, after the first update has initialized its direction (straight up)
Rocket(pos, level, lifetime) ==
    [Blank EXCEPT !.kind = "weapon_bullet", !.wtype = "Rocket", !.pos = pos,
                  !.vel = <<0, BulletSpeed + (BulletSpeed * (level - 1)) \div 10>>,
                  !.collider = TRUE, !.shape = Circle(14),
                  !.layer = "PlayerBullet", !.mask = player_bullet_mask,
                  !.damage = 2 + level, !.lifetime = lifetime,
                  !.rocket = TRUE, !.explosion_radius = 30 + 5 * level]

\* spawn_lightning
LightningCast(pos, level) ==
    [Blank EXCEPT !.kind = "cast", !.pos = pos, !.jumps = 3 + level,
                  !.range = Min(280 + 50 * level, 600), !.damage = 3 + level]

\* spawn_enemy_with_difficulty, EnemyType::Small: base health 1, base score 50,
\* d = 1 + (player_level - 1) * 0.3 (here in tenths), health = ceil(base * d),
\* score_value = floor(base * d); the enemy may have taken damage since
SmallEnemy(pos, player_level, damage_taken) ==
    LET d10 == 10 + (player_level - 1) * 3
    IN  [Blank EXCEPT !.kind = "enemy", !.pos = pos, !.collider = TRUE,
                      !.shape = Circle(14), !.layer = "Enemy", !.mask = enemy_mask,
                      !.scrollable = TRUE,
                      !.health = (1 * d10 + 9) \div 10 - damage_taken,
                      !.max_health = (1 * d10 + 9) \div 10,
                      !.score_value = (50 * d10) \div 10]

\* spawn_power_up(.., PowerUpType::Coin)
CoinPowerUp(pos) ==
    [Blank EXCEPT !.kind = "power_up", !.pos = pos, !.collider = TRUE, !.scrollable = TRUE,
                  !.power_type = "Coin",
                  !.shape = Circle(10), !.layer = "PowerUp", !.mask = default_mask]

\* spawn_boss_bullet
BossBullet(pos, vel, damage) ==
    [Blank EXCEPT !.kind = "boss_bullet", !.pos = pos, !.vel = vel, !.collider = TRUE,
                  !.shape = Circle(8), !.layer = "EnemyBullet", !.mask = enemy_bullet_mask,
                  !.damage = damage, !.lifetime = 5000]

\* spawn_boss for BossType::TriangleFighter, the boss type of the scenarios (its
\* attack needs no trigonometry); health, phase, entered and position as they may
\* be later in the fight
TriangleFighterHealth == 1600
TriangleFighterScore == 1500

Boss(pos, health, max_health, phase, entered) ==
    [Blank EXCEPT !.kind = "boss", !.pos = pos, !.collider = TRUE,
                  !.shape = Circle(60), !.layer = "Enemy", !.mask = enemy_mask,
                  !.health = health, !.max_health = max_health,
                  !.score_value = TriangleFighterScore,
                  !.phase = phase, !.entered = entered, !.attack_timer = 2000]

IsEnemy(w, id) == Exists(w, id) /\ w[id].kind = "enemy"
IsBoss(w, id) == Exists(w, id) /\ w[id].kind = "boss"
Bosses(w) == {id \in DOMAIN w : IsBoss(w, id)}
IsBullet(w, id) == Exists(w, id) /\ w[id].kind = "bullet"
IsWeaponBullet(w, id) == Exists(w, id) /\ w[id].kind = "weapon_bullet"
IsRocket(w, id) == IsWeaponBullet(w, id) /\ w[id].rocket
IsCast(w, id) == Exists(w, id) /\ w[id].kind = "cast"

(* The part of the state a system works on, threaded through its loop *)
Sys(w, gd, bs, c, hl) ==
    [world |-> w, game_data |-> gd, boss_state |-> bs, cmds |-> c, hitlog |-> hl]

Despawn(S, id) == [S EXCEPT !.cmds.despawn = @ \cup {id}]
SpawnLater(S, e) == [S EXCEPT !.cmds.spawn = Append(@, e)]

Log(S, projectile, target) ==
    [S EXCEPT !.hitlog =
        IF projectile \in DOMAIN S.hitlog
        THEN [S.hitlog EXCEPT ![projectile] = Append(@, target)]
        ELSE S.hitlog @@ (projectile :> <<target>>)]

RECURSIVE LogAll(_, _, _)
\* the targets of one explosion or one lightning chain, in the order they are damaged
LogAll(S, projectile, targets) ==
    IF targets = <<>> THEN S
    ELSE LogAll(Log(S, projectile, Head(targets)), projectile, Tail(targets))

\* the displacement of one frame, in whole pixels
Delta == CHOOSE d \in Deltas : TRUE
Step(vel) == <<(vel[1] * Delta) \div 1000, (vel[2] * Delta) \div 1000>>
Abs(x) == IF x < 0 THEN 0 - x ELSE x

----------------------------------------------------------------------------
(* entities/enemy.rs: enemy_collision_handler and apply_direct_damage.      *)
(* `drops` is the set of enemies for which rng.random_bool(0.02) comes out  *)
(* true when they are killed.                                               *)

apply_direct_damage_keeps_dead(S, boss_active, enemy_entity, damage, drops) ==
    IF ~IsEnemy(S.world, enemy_entity) THEN S
    ELSE LET enemy == S.world[enemy_entity]
             health == enemy.health - damage
             S1 == [S EXCEPT !.world[enemy_entity].health = health]
         IN  IF health <= 0
             THEN LET S2 == S1
                  IN  IF boss_active
                      THEN [S2 EXCEPT !.game_data = add_score_only(@, enemy.score_value)]
                      ELSE LET S3 == [S2 EXCEPT !.game_data = add_score(@, enemy.score_value)]
                           IN  IF enemy_entity \in drops
                               THEN SpawnLater(S3, CoinPowerUp(enemy.pos))
                               ELSE S3
             ELSE S1

apply_direct_damage(S, boss_active, enemy_entity, damage, drops) ==
    IF ~IsEnemy(S.world, enemy_entity) THEN S
    ELSE LET enemy == S.world[enemy_entity]
             health == enemy.health - damage
             S1 == [S EXCEPT !.world[enemy_entity].health = health]
         IN  IF health <= 0
             THEN LET S2 == Despawn(S1, enemy_entity)
                  IN  IF boss_active
                      THEN [S2 EXCEPT !.game_data = add_score_only(@, enemy.score_value)]
                      ELSE LET S3 == [S2 EXCEPT !.game_data = add_score(@, enemy.score_value)]
                           IN  IF enemy_entity \in drops
                               THEN SpawnLater(S3, CoinPowerUp(enemy.pos))
                               ELSE S3
             ELSE S1

RECURSIVE EnemiesWithinFrom(_, _, _, _)
RECURSIVE EnemiesWithinFrom_strict(_, _, _, _)
EnemiesWithinFrom_strict(w, center, radius, id) ==
    IF id > Len(w) THEN <<>>
    ELSE (IF IsEnemy(w, id) /\ DistSq(w[id].pos, center) < radius * radius
          THEN <<id>> ELSE <<>>)
         \o EnemiesWithinFrom(w, center, radius, id + 1)

\* enemy_set.p0().iter().filter_map(..): the enemies within the explosion radius, in id order
EnemiesWithinFrom(w, center, radius, id) ==
    IF id > Len(w) THEN <<>>
    ELSE (IF IsEnemy(w, id) /\ DistSq(w[id].pos, center) <= radius * radius
          THEN <<id>> ELSE <<>>)
         \o EnemiesWithinFrom(w, center, radius, id + 1)

EnemiesWithin(w, center, radius) == EnemiesWithinFrom(w, center, radius, 1)

RECURSIVE DamageAll(_, _, _, _, _)
\* for hit_enemy in targets { apply_direct_damage(..) }
DamageAll(S, boss_active, targets, damage, drops) ==
    IF targets = <<>> THEN S
    ELSE DamageAll(apply_direct_damage(S, boss_active, Head(targets), damage, drops),
                   boss_active, Tail(targets), damage, drops)

hit_list_contains_never(hits, entity) == FALSE

\* hits.entities.contains(&enemy_entity)
hit_list_contains(hits, entity) == entity \in hits

\* the Pierce branch of enemy_collision_handler: what remains and whether to despawn
EnemyPierce(S, other_entity) ==
    LET p == S.world[other_entity].pierce
    IN  IF p = NoPierce THEN Despawn(S, other_entity)
        ELSE IF p = PierceInf THEN S
        ELSE IF p > 1 THEN [S EXCEPT !.world[other_entity].pierce = p - 1]
        ELSE Despawn([S EXCEPT !.world[other_entity].pierce = 0], other_entity)

\* one iteration of `for event in collision_events.read()`
EnemyEvent(S, event, drops) ==
    LET has_enemy == event.layer_a = "Enemy" \/ event.layer_b = "Enemy"
        a_is_enemy == event.layer_a = "Enemy"
        enemy_entity == IF a_is_enemy THEN event.entity_a ELSE event.entity_b
        other_layer == IF a_is_enemy THEN event.layer_b ELSE event.layer_a
        other_entity == IF a_is_enemy THEN event.entity_b ELSE event.entity_a
        boss_active == S.boss_state.active
    IN  IF ~has_enemy THEN S
        ELSE IF ~IsEnemy(S.world, enemy_entity) THEN S
        ELSE IF other_layer # "PlayerBullet" THEN S
        ELSE IF IsBullet(S.world, other_entity)
             THEN Despawn(Log(apply_direct_damage(S, boss_active, enemy_entity,
                                                  S.world[other_entity].damage, drops),
                              other_entity, enemy_entity),
                          other_entity)
        ELSE IF ~IsWeaponBullet(S.world, other_entity) THEN S
        ELSE LET bullet == S.world[other_entity]
             IN  IF bullet.hitlist /\ hit_list_contains(bullet.hits, enemy_entity) THEN S
                 ELSE LET S1 == IF bullet.hitlist
                                THEN [S EXCEPT !.world[other_entity].hits = @ \cup {enemy_entity}]
                                ELSE S
                      IN  IF bullet.wtype = "Rocket"
                          THEN IF ~bullet.rocket THEN S1
                               ELSE LET targets == EnemiesWithin(S1.world, bullet.pos,
                                                                 bullet.explosion_radius)
                                    IN  Despawn(LogAll(DamageAll(S1, boss_active, targets,
                                                                 bullet.damage, drops),
                                                       other_entity, targets),
                                                other_entity)
                          ELSE EnemyPierce(Log(apply_direct_damage(S1, boss_active, enemy_entity,
                                                                   bullet.damage, drops),
                                               other_entity, enemy_entity),
                                           other_entity)

----------------------------------------------------------------------------
(* entities/boss.rs: boss_collision_handler *)

\* the Pierce branch of boss_collision_handler
BossPierce(S, other_entity) ==
    LET p == S.world[other_entity].pierce
    IN  IF p = NoPierce THEN Despawn(S, other_entity)
        ELSE IF p = PierceInf THEN S
        ELSE IF p > 1 THEN [S EXCEPT !.world[other_entity].pierce = p - 1]
        ELSE Despawn(S, other_entity)

BossDamage_stays_active(S, boss_entity, damage) ==
    IF ~IsBoss(S.world, boss_entity) THEN S
    ELSE LET boss == S.world[boss_entity]
             health == boss.health - damage
             S1 == [S EXCEPT !.world[boss_entity].health = health,
                             !.boss_state.current_health = health]
         IN  IF health <= 0
             THEN [Despawn(S1, boss_entity) EXCEPT
                        !.game_data = add_score(@, boss.score_value),
                        !.boss_state.current_health = 0]
             ELSE S1

\* "应用伤害": boss.health -= damage and the kill
BossDamage(S, boss_entity, damage) ==
    IF ~IsBoss(S.world, boss_entity) THEN S
    ELSE LET boss == S.world[boss_entity]
             health == boss.health - damage
             S1 == [S EXCEPT !.world[boss_entity].health = health,
                             !.boss_state.current_health = health]
         IN  IF health <= 0
             THEN [Despawn(S1, boss_entity) EXCEPT
                        !.game_data = add_score(@, boss.score_value),
                        !.boss_state.active = FALSE,
                        !.boss_state.current_health = 0]
             ELSE S1

BossEvent(S, event) ==
    LET a_is_boss == IsBoss(S.world, event.entity_a)
        b_is_boss == IsBoss(S.world, event.entity_b)
        found == IF event.layer_a = "Enemy" THEN a_is_boss
                 ELSE IF event.layer_b = "Enemy" THEN b_is_boss
                 ELSE FALSE
        boss_entity == IF event.layer_a = "Enemy" THEN event.entity_a ELSE event.entity_b
        other_layer == IF a_is_boss THEN event.layer_b ELSE event.layer_a
        other_entity == IF a_is_boss THEN event.entity_b ELSE event.entity_a
    IN  IF ~found THEN S
        ELSE IF other_layer # "PlayerBullet" THEN S
        ELSE IF IsBullet(S.world, other_entity)
             THEN BossDamage(Log(Despawn(S, other_entity), other_entity, boss_entity),
                             boss_entity, S.world[other_entity].damage)
        ELSE IF ~IsWeaponBullet(S.world, other_entity) THEN S
        ELSE LET bullet == S.world[other_entity]
             IN  IF bullet.hitlist /\ hit_list_contains(bullet.hits, boss_entity) THEN S
                 ELSE LET S1 == IF bullet.hitlist
                                THEN [S EXCEPT !.world[other_entity].hits = @ \cup {boss_entity}]
                                ELSE S
                          S2 == IF bullet.wtype = "Rocket"
                                THEN Despawn(S1, other_entity)
                                ELSE BossPierce(S1, other_entity)
                      IN  BossDamage(Log(S2, other_entity, boss_entity),
                                     boss_entity, bullet.damage)

----------------------------------------------------------------------------
(* entities/player.rs: update_weapon_bullets, update_rocket_bullets and     *)
(* resolve_lightning_casts.  Queries iterate in id order.                   *)

OutOfBounds(pos) ==
    \/ Abs(pos[1]) > WindowWidth \div 2 + 50
    \/ Abs(pos[2]) > WindowHeight \div 2 + 50

WeaponBulletStep(S, entity) ==
    LET bullet == S.world[entity]
        lifetime == bullet.lifetime - Delta
        S1 == [S EXCEPT !.world[entity].lifetime = lifetime]
        pos == <<bullet.pos[1] + Step(bullet.vel)[1], bullet.pos[2] + Step(bullet.vel)[2]>>
        S2 == [S1 EXCEPT !.world[entity].pos = pos]
    IN  IF lifetime <= 0 THEN Despawn(S1, entity)
        ELSE IF OutOfBounds(pos) THEN Despawn(S2, entity)
        ELSE S2

RECURSIVE UpdateWeaponBullets(_, _)
UpdateWeaponBullets(S, id) ==
    IF id > Len(S.world) THEN S
    ELSE UpdateWeaponBullets(
            IF IsWeaponBullet(S.world, id) /\ ~S.world[id].rocket
            THEN WeaponBulletStep(S, id) ELSE S,
            id + 1)

\* the explosion of update_rocket_bullets: enemy.health -= bullet.damage and the kill
ExplosionDamage(S, enemy_entity, damage, drops) ==
    IF ~IsEnemy(S.world, enemy_entity) THEN S
    ELSE LET enemy == S.world[enemy_entity]
             health == enemy.health - damage
             S1 == [S EXCEPT !.world[enemy_entity].health = health]
         IN  IF health <= 0
             THEN LET S2 == [Despawn(S1, enemy_entity) EXCEPT
                                !.game_data = add_score(@, enemy.score_value)]
                  IN  IF enemy_entity \in drops
                      THEN SpawnLater(S2, CoinPowerUp(enemy.pos))
                      ELSE S2
             ELSE S1

RECURSIVE ExplodeAll(_, _, _, _)
ExplodeAll(S, targets, damage, drops) ==
    IF targets = <<>> THEN S
    ELSE ExplodeAll(ExplosionDamage(S, Head(targets), damage, drops),
                    Tail(targets), damage, drops)

\* one rocket of update_rocket_bullets (rocket.initialized is true)
RocketStep(S, entity, drops) ==
    LET bullet == S.world[entity]
        lifetime == bullet.lifetime - Delta
        pos == <<bullet.pos[1] + Step(bullet.vel)[1], bullet.pos[2] + Step(bullet.vel)[2]>>
        S1 == [S EXCEPT !.world[entity].lifetime = lifetime, !.world[entity].pos = pos]
    IN  IF OutOfBounds(pos) \/ lifetime <= 0
        THEN LET targets == EnemiesWithin(S1.world, pos, bullet.explosion_radius)
             IN  Despawn(LogAll(ExplodeAll(S1, targets, bullet.damage, drops),
                                entity, targets),
                         entity)
        ELSE S1

RECURSIVE UpdateRocketBullets(_, _, _)
UpdateRocketBullets(S, id, drops) ==
    IF id > Len(S.world) THEN S
    ELSE UpdateRocketBullets(IF IsRocket(S.world, id) THEN RocketStep(S, id, drops) ELSE S,
                             id + 1, drops)

RECURSIVE NearestFrom(_, _, _, _, _, _, _)
\* .filter(not hit, within range).min_by(distance_squared): the first nearest of the
\* given kind in id order, 0 when there is none
NearestFrom(w, kind, current, hit, range, id, best) ==
    IF id > Len(w) THEN best
    ELSE LET ok == /\ Exists(w, id) /\ w[id].kind = kind
                   /\ \A k \in DOMAIN hit : hit[k] # id
                   /\ DistSq(w[id].pos, current) <= range * range
             better == best = 0 \/ DistSq(w[id].pos, current) < DistSq(w[best].pos, current)
         IN  NearestFrom(w, kind, current, hit, range, id + 1,
                         IF ok /\ better THEN id ELSE best)

\* the next hop of a chain: the nearer of the nearest enemy and the nearest boss
NextHop(w, current, hit, range) ==
    LET next_enemy == NearestFrom(w, "enemy", current, hit, range, 1, 0)
        next_boss == NearestFrom(w, "boss", current, hit, range, 1, 0)
    IN  IF next_enemy = 0 THEN next_boss
        ELSE IF next_boss = 0 THEN next_enemy
        ELSE IF DistSq(w[next_enemy].pos, current) <= DistSq(w[next_boss].pos, current)
             THEN next_enemy ELSE next_boss

RECURSIVE Chain(_, _, _, _, _)
Chain_uncapped(w, current, remaining, hit, range) ==
    LET next == NextHop(w, current, hit, range)
    IN  IF next = 0 THEN hit
        ELSE Chain(w, w[next].pos, remaining - 1, Append(hit, next), range)

\* while remaining > 0 { .. }
Chain(w, current, remaining, hit, range) ==
    IF remaining = 0 THEN hit
    ELSE LET next == NextHop(w, current, hit, range)
         IN  IF next = 0 THEN hit
             ELSE Chain(w, w[next].pos, remaining - 1, Append(hit, next), range)

\* "结算伤害" for one entity of the chain
LightningDamage(S, entity, damage, drops) ==
    IF IsEnemy(S.world, entity) THEN ExplosionDamage(S, entity, damage, drops)
    ELSE BossDamage(S, entity, damage)

RECURSIVE LightningAll(_, _, _, _)
LightningAll(S, hit, damage, drops) ==
    IF hit = <<>> THEN S
    ELSE LightningAll(LightningDamage(S, Head(hit), damage, drops), Tail(hit), damage, drops)

CastStep(S, entity, drops) ==
    LET cast == S.world[entity]
        hit == Chain(S.world, cast.pos, cast.jumps, <<>>, cast.range)
    IN  Despawn(LogAll(LightningAll(S, hit, cast.damage, drops), entity, hit), entity)

RECURSIVE ResolveLightningCasts(_, _, _)
ResolveLightningCasts(S, id, drops) ==
    IF id > Len(S.world) THEN S
    ELSE ResolveLightningCasts(IF IsCast(S.world, id) THEN CastStep(S, id, drops) ELSE S,
                               id + 1, drops)

----------------------------------------------------------------------------
(* entities/boss.rs: boss_behavior *)

boss_phase_inclusive(health, max_health) ==
    IF 10 * health >= 6 * max_health THEN 1
    ELSE IF 10 * health >= 3 * max_health THEN 2
    ELSE 3

\* health_percent = health / max_health; > 0.6 -> 1, > 0.3 -> 2, else 3.  The f32
\* quotient compares with the f32 literals 0.6 and 0.3 as the exact ratio does for
\* every max_health below 2^23.
boss_phase(health, max_health) ==
    IF 10 * health > 6 * max_health THEN 1
    ELSE IF 10 * health > 3 * max_health THEN 2
    ELSE 3

\* boss_attack_cooldown for TriangleFighter (the default row)
boss_attack_cooldown(phase) ==
    CASE phase = 1 -> 1800
      [] phase = 2 -> 1350
      [] OTHER -> 1000

\* (move_timer * 0.5).sin() * 150.0 in whole pixels, by the series x - x^3/6
\* (exact to a pixel while move_timer is below 1.2 s)
Sway(move_timer) ==
    (3 * move_timer) \div 40 - (((move_timer * move_timer) \div 1000) * move_timer) \div 320000

\* execute_boss_attack, TriangleFighter: three bullets straight down
RECURSIVE TripleShot(_, _, _)
TripleShot(S, pos, i) ==
    IF i > 2 THEN S
    ELSE TripleShot(SpawnLater(S, BossBullet(<<pos[1] + (i - 1) * 30, pos[2] - 40>>,
                                             <<0, 0 - 300>>, 2)),
                    pos, i + 1)

BossEntryTargetY == WindowHeight \div 2 - 120

\* an entrance in which the attack timer runs
BossStep_entrance_attacks(S, entity) ==
    LET boss == S.world[entity]
    IN  IF ~boss.entered
        THEN IF boss.pos[2] > BossEntryTargetY
             THEN [S EXCEPT !.world[entity].pos[2] = @ - (100 * Delta) \div 1000,
                            !.world[entity].attack_timer = @ - Delta]
             ELSE [S EXCEPT !.world[entity].entered = TRUE]
        ELSE S

BossStep(S, entity) ==
    LET boss == S.world[entity]
    IN  IF ~boss.entered
        THEN IF boss.pos[2] > BossEntryTargetY
             THEN [S EXCEPT !.world[entity].pos[2] = @ - (100 * Delta) \div 1000]
             ELSE [S EXCEPT !.world[entity].entered = TRUE]
        ELSE LET phase == boss_phase(boss.health, boss.max_health)
                 move_timer == boss.move_timer + Delta
                 pos == <<Sway(move_timer), boss.pos[2]>>
                 attack_timer == boss.attack_timer - Delta
                 S1 == [S EXCEPT !.world[entity].phase = phase,
                                 !.world[entity].move_timer = move_timer,
                                 !.world[entity].pos = pos,
                                 !.world[entity].attack_timer =
                                    IF attack_timer <= 0 THEN boss_attack_cooldown(phase)
                                    ELSE attack_timer,
                                 !.boss_state.current_health = boss.health]
             IN  IF attack_timer <= 0 THEN TripleShot(S1, pos, 0) ELSE S1

RECURSIVE BossBehavior(_, _)
BossBehavior(S, id) ==
    IF id > Len(S.world) THEN S
    ELSE BossBehavior(IF IsBoss(S.world, id) THEN BossStep(S, id) ELSE S, id + 1)

----------------------------------------------------------------------------
(* The frame: the Update systems of the combat plugins as actions, and the  *)
(* end of the frame.                                                        *)

MaxTicks == 1          \* frames explored in one run
MaxEntities == 6       \* entity ids handed out before no further run is started
MaxCoinDrops == 1      \* coin power-ups dropped in one run

Sys0 == Sys(world, game_data, boss_state, cmds, hitlog)

\* the system `sys` has run and left S
Commit(sys, S) ==
    /\ world' = S.world
    /\ game_data' = S.game_data
    /\ boss_state' = S.boss_state
    /\ cmds' = S.cmds
    /\ hitlog' = S.hitlog
    /\ ran' = ran \cup {sys}
    /\ gates' = gates \cup {PluginOf(sys)}
    /\ UNCHANGED <<frame, weaponVars, extraVars>>

\* collision_events.read() advances the cursor of the system's MessageReader
MarkRead(reader) == [k \in DOMAIN msgs |-> [msgs[k] EXCEPT !.readBy = @ \cup {reader}]]

CoinsSoFar ==
    Cardinality({id \in DOMAIN world : world[id].kind = "power_up"}) + Len(cmds.spawn)

\* the outcomes of rng.random_bool(0.02) over the enemies of the frame
DropChoices ==
    {d \in SUBSET {id \in DOMAIN world : IsEnemy(world, id)} :
        Cardinality(d) + CoinsSoFar <= MaxCoinDrops}

update_weapon_bullets ==
    /\ CanRun("update_weapon_bullets")
    /\ Commit("update_weapon_bullets", UpdateWeaponBullets(Sys0, 1))
    /\ UNCHANGED msgs

update_rocket_bullets ==
    /\ CanRun("update_rocket_bullets")
    /\ \E drops \in DropChoices :
        Commit("update_rocket_bullets", UpdateRocketBullets(Sys0, 1, drops))
    /\ UNCHANGED msgs

resolve_lightning_casts ==
    /\ CanRun("resolve_lightning_casts")
    /\ \E drops \in DropChoices :
        Commit("resolve_lightning_casts", ResolveLightningCasts(Sys0, 1, drops))
    /\ UNCHANGED msgs

RECURSIVE EnemyCollisionHandler(_, _, _)
\* for event in collision_events.read() { .. }
EnemyCollisionHandler(S, k, drops) ==
    IF k > Len(msgs) THEN S
    ELSE EnemyCollisionHandler(
            IF "enemy_collision_handler" \in msgs[k].readBy THEN S
            ELSE EnemyEvent(S, msgs[k].ev, drops),
            k + 1, drops)

enemy_collision_handler ==
    /\ CanRun("enemy_collision_handler")
    /\ \E drops \in DropChoices :
        Commit("enemy_collision_handler", EnemyCollisionHandler(Sys0, 1, drops))
    /\ msgs' = MarkRead("enemy_collision_handler")

RECURSIVE BossCollisionHandler(_, _)
BossCollisionHandler(S, k) ==
    IF k > Len(msgs) THEN S
    ELSE BossCollisionHandler(
            IF "boss_collision_handler" \in msgs[k].readBy THEN S
            ELSE BossEvent(S, msgs[k].ev),
            k + 1)

boss_collision_handler ==
    /\ CanRun("boss_collision_handler")
    /\ Commit("boss_collision_handler", BossCollisionHandler(Sys0, 1))
    /\ msgs' = MarkRead("boss_collision_handler")

boss_behavior ==
    /\ CanRun("boss_behavior")
    /\ Commit("boss_behavior", BossBehavior(Sys0, 1))
    /\ UNCHANGED msgs

\* every system of the frame has run or is held back by its run condition
FrameDone == \A sys \in sched : ~CanRun(sys)

\* The Update schedule ends: the queued Commands are applied (despawns, then the
\* spawned entities get the next ids), and Messages::update of the next frame drops
\* the events that are two frames old.
end_frame ==
    /\ FrameDone
    /\ frame < MaxTicks
    /\ next_state = "none"       \* with GameOver queued the next frame leaves Playing
    /\ world' = [id \in DOMAIN world |-> IF id \in cmds.despawn THEN Blank ELSE world[id]]
                    \o cmds.spawn
    /\ cmds' = NoCommands
    /\ msgs' = LET kept == SelectSeq(msgs, LAMBDA m : m.age = 0)
               IN  [k \in DOMAIN kept |-> [kept[k] EXCEPT !.age = 1]]
    /\ ran' = {}
    /\ gates' = {}
    /\ frame' = frame + 1
    /\ UNCHANGED <<game_data, boss_state, hitlog, weaponVars, extraVars>>

----------------------------------------------------------------------------
(* f32 arithmetic, as far as the difficulty scaling needs it.  A positive   *)
(* f32 is [m, s], standing for m / 2^s with m <= 2^24; every operation      *)
(* computes the exact result and rounds it once to 24 significant bits,     *)
(* ties to even, as IEEE 754 does.                                          *)

RECURSIVE Pow2(_)
Pow2(n) == IF n = 0 THEN 1 ELSE 2 * Pow2(n - 1)

RECURSIVE BitLen(_)
BitLen(n) == IF n = 0 THEN 0 ELSE 1 + BitLen(n \div 2)

\* the value (hi * 4096 + lo) / 2^s, lo < 4096, rounded to the nearest f32
f32_round(hi, lo, s) ==
    LET bits == IF hi = 0 THEN BitLen(lo) ELSE BitLen(hi) + 12
        t == Max(0, bits - 24)
        q == hi * Pow2(12 - t) + lo \div Pow2(t)
        r == lo % Pow2(t)
        up == t > 0 /\ (2 * r > Pow2(t) \/ (2 * r = Pow2(t) /\ q % 2 = 1))
    IN  [m |-> IF up THEN q + 1 ELSE q, s |-> s - t]

\* x * (k as f32) for a small whole number k
f32_mul_int(x, k) ==
    LET p_hi == (x.m \div 4096) * k
        p_lo == (x.m % 4096) * k
    IN  f32_round(p_hi + p_lo \div 4096, p_lo % 4096, x.s)

\* 1.0 + x
f32_add_one(x) ==
    LET n == Pow2(x.s) + x.m
    IN  f32_round(n \div 4096, n % 4096, x.s)

\* x.ceil() as i32
f32_ceil(x) == (x.m + Pow2(x.s) - 1) \div Pow2(x.s)

\* x as u32
f32_trunc(x) == x.m \div Pow2(x.s)

\* the f32 literals 0.3 and 0.15
ZeroPointThree == [m |-> 10066330, s |-> 25]
ZeroPointOneFive == [m |-> 10066330, s |-> 26]

\* GameData::difficulty_multiplier (no caller in the repository)
difficulty_multiplier(gd) == f32_add_one(f32_mul_int(ZeroPointOneFive, gd.player_level - 1))

----------------------------------------------------------------------------
(* entities/enemy.rs: spawn_enemies and spawn_enemy_with_difficulty *)

EnemyTypes == {"Diamond", "Hexagon", "Small", "EliteScout", "EliteGunship", "EliteGuard"}
EliteTypes == {"EliteScout", "EliteGunship", "EliteGuard"}

base_health(enemy_type) ==
    CASE enemy_type = "Diamond" -> 2
      [] enemy_type = "Hexagon" -> 5
      [] enemy_type = "Small" -> 1
      [] enemy_type = "EliteScout" -> 10
      [] enemy_type = "EliteGunship" -> 14
      [] enemy_type = "EliteGuard" -> 18

base_score(enemy_type) ==
    CASE enemy_type = "Diamond" -> 100
      [] enemy_type = "Hexagon" -> 300
      [] enemy_type = "Small" -> 50
      [] enemy_type = "EliteScout" -> 900
      [] enemy_type = "EliteGunship" -> 1200
      [] enemy_type = "EliteGuard" -> 1500

base_shoot_interval(enemy_type) ==
    CASE enemy_type = "Diamond" -> 2000
      [] enemy_type = "Hexagon" -> 1500
      [] enemy_type = "Small" -> 2600
      [] enemy_type = "EliteScout" -> 2800
      [] enemy_type = "EliteGunship" -> 3200
      [] enemy_type = "EliteGuard" -> 3600

\* the collision radius of the blueprints the type is drawn with
BlueprintRadii(enemy_type) ==
    CASE enemy_type = "Diamond" -> {16, 14}
      [] enemy_type = "Hexagon" -> {20, 22}
      [] enemy_type = "Small" -> {14}
      [] enemy_type = "EliteScout" -> {26}
      [] enemy_type = "EliteGunship" -> {30}
      [] enemy_type = "EliteGuard" -> {30}

\* let difficulty = 1.0 + (level as f32 - 1.0) * 0.3
spawn_difficulty(level) == f32_add_one(f32_mul_int(ZeroPointThree, level - 1))

\* the difficulty in tenths, for the quantities kept in milliseconds and pixels
Tenths(level) == 10 + (level - 1) * 3

EnemyBaseSpeed == 150

\* spawn_enemy_with_difficulty; radius and movement are the random draws, the
\* shoot timer starts at the low end of its range
SpawnedEnemy(pos, enemy_type, level, radius, movement) ==
    LET difficulty == spawn_difficulty(level)
        health == f32_ceil(f32_mul_int(difficulty, base_health(enemy_type)))
        score == f32_trunc(f32_mul_int(difficulty, base_score(enemy_type)))
        speed_multiplier == (100 + (Tenths(level) - 10) * 5)
                                \div (IF enemy_type \in EliteTypes THEN 5 ELSE 1)
        speed == IF movement = "Sine"
                 THEN (EnemyBaseSpeed * 8 * speed_multiplier) \div 1000
                 ELSE (EnemyBaseSpeed * speed_multiplier) \div 100
    IN  [Blank EXCEPT !.kind = "enemy", !.pos = pos, !.vel = <<0, 0 - speed>>,
                      !.collider = TRUE, !.shape = Circle(radius),
                      !.layer = "Enemy", !.mask = enemy_mask, !.scrollable = TRUE,
                      !.health = health, !.max_health = health, !.score_value = score,
                      !.enemy_type = enemy_type, !.movement = movement,
                      !.shoot_interval =
                            Max((base_shoot_interval(enemy_type) * 10) \div Tenths(level), 500)]

EnemySpawnInterval == 1500

\* spawn_timer.interval: (config.enemy_spawn_interval / difficulty).max(0.3), doubled
\* during a boss fight
SpawnInterval_undoubled(level, boss_active) ==
    Max((EnemySpawnInterval * 10) \div Tenths(level), 300)

SpawnInterval(level, boss_active) ==
    LET interval == Max((EnemySpawnInterval * 10) \div Tenths(level), 300)
    IN  IF boss_active THEN 2 * interval ELSE interval

\* the enemy types the draws of spawn_enemies can come out as
SpawnTypes(level, boss_active) ==
    IF boss_active THEN {"Small", "Diamond"}
    ELSE (IF level >= 3 THEN EliteTypes ELSE {}) \cup {"Diamond", "Hexagon", "Small"}

\* rng.random_range(-window_width / 2 + 50 .. window_width / 2 - 50): the two ends
SpawnXs == {50 - WindowWidth \div 2, WindowWidth \div 2 - 51}
SpawnY == WindowHeight \div 2 + 50

Movements == {"Straight", "Sine"}

\* "高等级时可能同时生成多个敌人": the extra Diamond and the extra Small
ExtraEnemies(level, boss_active, x, second, third) ==
    (IF ~boss_active /\ level >= 5 /\ second
     THEN <<SpawnedEnemy(<<x, SpawnY + 50>>, "Diamond", level, 14, "Straight")>>
     ELSE <<>>)
    \o (IF ~boss_active /\ level >= 10 /\ third
        THEN <<SpawnedEnemy(<<x, SpawnY + 100>>, "Small", level, 14, "Straight")>>
        ELSE <<>>)

spawn_enemies ==
    /\ CanRun("spawn_enemies")
    /\ LET level == game_data.player_level
           timer == spawn_timer.timer + Delta
           interval == SpawnInterval(level, boss_state.active)
       IN  IF timer >= interval
           THEN \E enemy_type \in SpawnTypes(level, boss_state.active), x \in SpawnXs,
                   movement \in Movements, second \in BOOLEAN, third \in BOOLEAN :
                  \E radius \in BlueprintRadii(enemy_type) :
                    /\ spawn_timer' = [timer |-> 0, interval |-> interval]
                    /\ cmds' = [cmds EXCEPT !.spawn =
                            @ \o <<SpawnedEnemy(<<x, SpawnY>>, enemy_type, level, radius, movement)>>
                              \o ExtraEnemies(level, boss_state.active, 0 - x, second, third)]
           ELSE /\ spawn_timer' = [timer |-> timer, interval |-> interval]
                /\ UNCHANGED cmds
    /\ ran' = ran \cup {"spawn_enemies"}
    /\ gates' = gates \cup {PluginOf("spawn_enemies")}
    /\ UNCHANGED <<world, msgs, game_data, boss_state, frame, hitlog, weaponVars, sched, run_bosses, recharge, playerVars, menuVars>>

----------------------------------------------------------------------------
(* game/scroll.rs and game/states.rs: the systems that run in Playing       *)
(* whether or not an upgrade selection is pending                           *)

ScrollSpeed == 50

\* update_scrollable_entities: Scrollable::default() moves with the scroll at speed 1.0
update_scrollable_entities ==
    /\ CanRun("update_scrollable_entities")
    /\ world' = [id \in DOMAIN world |->
                    IF Exists(world, id) /\ world[id].scrollable
                    THEN [world[id] EXCEPT !.pos[2] = @ - (ScrollSpeed * Delta) \div 1000]
                    ELSE world[id]]
    /\ ran' = ran \cup {"update_scrollable_entities"}
    /\ gates' = gates \cup {PluginOf("update_scrollable_entities")}
    /\ UNCHANGED <<msgs, combatVars, weaponVars, extraVars>>

\* update_game_time
update_game_time ==
    /\ CanRun("update_game_time")
    /\ game_data' = [game_data EXCEPT !.play_time = @ + Delta]
    /\ ran' = ran \cup {"update_game_time"}
    /\ gates' = gates \cup {PluginOf("update_game_time")}
    /\ UNCHANGED <<world, msgs, cmds, boss_state, frame, hitlog, weaponVars, extraVars>>

----------------------------------------------------------------------------
(* entities/player.rs: the player, what hits it and what it picks up *)

\* spawn_player: Player::default() with the collider of player_raiden_mk1
PlayerEntity(pos, invincible, invincible_timer) ==
    [Blank EXCEPT !.kind = "player", !.pos = pos, !.collider = TRUE,
                  !.shape = Circle(18), !.layer = "Player", !.mask = player_mask,
                  !.invincible = invincible, !.invincible_timer = invincible_timer]

\* spawn_enemy_bullet
EnemyBullet(pos, vel) ==
    [Blank EXCEPT !.kind = "enemy_bullet", !.pos = pos, !.vel = vel, !.collider = TRUE,
                  !.shape = Circle(5), !.layer = "EnemyBullet", !.mask = enemy_bullet_mask,
                  !.damage = 1]

\* spawn_power_up(.., PowerUpType::Shield)
ShieldPowerUp(pos) ==
    [Blank EXCEPT !.kind = "power_up", !.pos = pos, !.collider = TRUE, !.scrollable = TRUE,
                  !.power_type = "Shield",
                  !.shape = Circle(14), !.layer = "PowerUp", !.mask = default_mask]

heal_unbounded(gd, amount) == [gd EXCEPT !.lives = gd.lives + amount]

heal(gd, amount) == [gd EXCEPT !.lives = Min(gd.lives + amount, gd.max_lives)]
restore_shield(gd, amount) == [gd EXCEPT !.shield = Min(gd.shield + amount, gd.max_shield)]

InvincibleTime == 2000

\* what player_collision_handler works on
PlayerSys(w, gd, c, ns, hits) ==
    [world |-> w, game_data |-> gd, cmds |-> c, next_state |-> ns, player_hits |-> hits]

Hit(before, after) ==
    [shield |-> before.shield, lives |-> before.lives,
     shield_after |-> after.shield, lives_after |-> after.lives]

PlayerHit_through_shield(P, player_entity) ==
    IF P.game_data.shield > 0
    THEN [P EXCEPT !.game_data.shield = @ - 1,
                   !.game_data.lives = IF @ > 0 THEN @ - 1 ELSE @]
    ELSE IF P.game_data.lives > 0
    THEN [P EXCEPT !.game_data.lives = @ - 1,
                   !.world[player_entity].invincible = TRUE,
                   !.world[player_entity].invincible_timer = InvincibleTime]
    ELSE P

\* "玩家受伤 - 先扣护盾，再扣血"
PlayerHit(P, player_entity) ==
    IF P.game_data.shield > 0
    THEN [P EXCEPT !.game_data.shield = @ - 1]
    ELSE IF P.game_data.lives > 0
    THEN [P EXCEPT !.game_data.lives = @ - 1,
                   !.world[player_entity].invincible = TRUE,
                   !.world[player_entity].invincible_timer = InvincibleTime]
    ELSE P

\* the arm CollisionLayer::Enemy | CollisionLayer::EnemyBullet
PlayerDamaged(P, player_entity, other_layer, other_entity) ==
    LET P1 == PlayerHit(P, player_entity)
        P2 == [P1 EXCEPT !.player_hits = Append(@, Hit(P.game_data, P1.game_data))]
        P3 == IF other_layer = "EnemyBullet"
              THEN [P2 EXCEPT !.cmds.despawn = @ \cup {other_entity}]
              ELSE P2
    IN  IF P3.game_data.lives = 0 THEN [P3 EXCEPT !.next_state = "GameOver"] ELSE P3

\* the arm CollisionLayer::PowerUp
PlayerPickup(P, other_entity) ==
    LET power_type == IF Exists(P.world, other_entity) /\ P.world[other_entity].kind = "power_up"
                      THEN P.world[other_entity].power_type
                      ELSE "none"
        P1 == CASE power_type = "Coin" -> [P EXCEPT !.game_data.coins = @ + 1]
                [] power_type = "Shield" -> [P EXCEPT !.game_data = restore_shield(@, 1)]
                [] power_type = "ExtraLife" -> [P EXCEPT !.game_data = heal(@, 1)]
                [] power_type = "WeaponUpgrade" -> [P EXCEPT !.game_data.upgrading = TRUE]
                [] OTHER -> [P EXCEPT !.game_data.coins = @ + 1]
    IN  [P1 EXCEPT !.cmds.despawn = @ \cup {other_entity}]

\* the body of the loop over collision_events.read()
PlayerEvent(P, event) ==
    LET a_is_player == event.layer_a = "Player"
        involved == a_is_player \/ event.layer_b = "Player"
        player_entity == IF a_is_player THEN event.entity_a ELSE event.entity_b
        other_layer == IF a_is_player THEN event.layer_b ELSE event.layer_a
        other_entity == IF a_is_player THEN event.entity_b ELSE event.entity_a
    IN  IF ~involved THEN P
        ELSE IF ~(Exists(P.world, player_entity) /\ P.world[player_entity].kind = "player")
        THEN P
        ELSE IF P.world[player_entity].invincible THEN P
        ELSE IF other_layer \in {"Enemy", "EnemyBullet"}
        THEN PlayerDamaged(P, player_entity, other_layer, other_entity)
        ELSE IF other_layer = "PowerUp" THEN PlayerPickup(P, other_entity)
        ELSE P

RECURSIVE PlayerCollisionHandler(_, _)
PlayerCollisionHandler(P, k) ==
    IF k > Len(msgs) THEN P
    ELSE PlayerCollisionHandler(
            IF "player_collision_handler" \in msgs[k].readBy THEN P
            ELSE PlayerEvent(P, msgs[k].ev),
            k + 1)

player_collision_handler ==
    /\ CanRun("player_collision_handler")
    /\ LET P == PlayerCollisionHandler(
                    PlayerSys(world, game_data, cmds, next_state, player_hits), 1)
       IN  /\ world' = P.world
           /\ game_data' = P.game_data
           /\ cmds' = P.cmds
           /\ next_state' = P.next_state
           /\ player_hits' = P.player_hits
    /\ msgs' = MarkRead("player_collision_handler")
    /\ ran' = ran \cup {"player_collision_handler"}
    /\ gates' = gates \cup {PluginOf("player_collision_handler")}
    /\ UNCHANGED <<boss_state, frame, hitlog, weaponVars, sched, run_bosses, recharge, spawn_timer, menuVars>>

\* update_invincibility: the timer runs down and the invincibility ends at 0
update_invincibility ==
    /\ CanRun("update_invincibility")
    /\ world' = [id \in DOMAIN world |->
                    IF Exists(world, id) /\ world[id].kind = "player" /\ world[id].invincible
                    THEN LET timer == world[id].invincible_timer - Delta
                         IN  [world[id] EXCEPT !.invincible_timer = timer,
                                               !.invincible = ~(timer <= 0)]
                    ELSE world[id]]
    /\ ran' = ran \cup {"update_invincibility"}
    /\ gates' = gates \cup {PluginOf("update_invincibility")}
    /\ UNCHANGED <<msgs, combatVars, weaponVars, extraVars>>

----------------------------------------------------------------------------
(* ui/menu.rs: the ways into a run, and the permanent upgrades bought with  *)
(* the coins of earlier runs.  Interaction::Pressed on a button is the      *)
(* input `button`.                                                          *)

\* GameData::reset
reset(gd) ==
    [gd EXCEPT !.score = 0, !.coins = 0, !.lives = 3, !.max_lives = 5, !.shield = 0,
               !.max_shield = 3, !.play_time = 0, !.experience = 0, !.player_level = 1,
               !.upgrading = FALSE]

\* "应用强化：机身每级 +1 最大生命；护盾每级 +2 最大护盾"
ApplyUpgrades(gd, sd) ==
    LET max_lives == 5 + sd.hull_upgrade_level
        max_shield == 4 + sd.shield_upgrade_level * 2
    IN  [gd EXCEPT !.max_lives = max_lives, !.max_shield = max_shield,
                   !.lives = Min(gd.lives, max_lives), !.shield = Min(gd.shield, max_shield)]

\* the system runs in the frame: its run condition in_state(s), once per frame
RunsIn(s, sys) == state = s /\ sys \in sched /\ sys \notin ran

menuOnly == <<world, msgs, cmds, boss_state, gates, frame, hitlog, weaponVars,
              sched, run_bosses, recharge, spawn_timer, player_hits>>

menu_button_system ==
    /\ RunsIn("Menu", "menu_button_system")
    /\ \E button \in {"Start", "Recharge", "none"} :
        CASE button = "Start" ->
                /\ game_data' = ApplyUpgrades(reset(game_data), save_data)
                /\ next_state' = "Playing"
          [] button = "Recharge" ->
                /\ next_state' = "Recharge"
                /\ UNCHANGED game_data
          [] OTHER -> UNCHANGED <<game_data, next_state>>
    /\ ran' = ran \cup {"menu_button_system"}
    /\ UNCHANGED <<menuOnly, menuVars>>

menu_keyboard_start ==
    /\ RunsIn("Menu", "menu_keyboard_start")
    /\ \E just_pressed \in BOOLEAN :
        IF just_pressed
        THEN /\ game_data' = reset(game_data)
             /\ next_state' = "Playing"
        ELSE UNCHANGED <<game_data, next_state>>
    /\ ran' = ran \cup {"menu_keyboard_start"}
    /\ UNCHANGED <<menuOnly, menuVars>>

upgrade_cost(current_level) ==
    CASE current_level = 0 -> 30
      [] current_level = 1 -> 100
      [] OTHER -> -1         \* None

menu_upgrade_button_system ==
    /\ RunsIn("Menu", "menu_upgrade_button_system")
    /\ \E kind \in {"Hull", "Shield", "none"} :
        LET current_level == IF kind = "Hull" THEN save_data.hull_upgrade_level
                             ELSE save_data.shield_upgrade_level
            cost == upgrade_cost(current_level)
        IN  IF kind = "none" \/ cost < 0 \/ save_data.total_coins < cost
            THEN UNCHANGED save_data
            ELSE save_data' =
                    IF kind = "Hull"
                    THEN [save_data EXCEPT !.total_coins = @ - cost,
                                           !.hull_upgrade_level = Min(current_level + 1, 2)]
                    ELSE [save_data EXCEPT !.total_coins = @ - cost,
                                           !.shield_upgrade_level = Min(current_level + 1, 2)]
    /\ ran' = ran \cup {"menu_upgrade_button_system"}
    /\ UNCHANGED <<menuOnly, game_data, next_state, state>>

game_over_button_system ==
    /\ RunsIn("GameOver", "game_over_button_system")
    /\ \E button \in {"Restart", "Menu", "none"} :
        CASE button = "Restart" ->
                /\ game_data' = reset(game_data)
                /\ next_state' = "Playing"
          [] button = "Menu" ->
                /\ next_state' = "Menu"
                /\ UNCHANGED game_data
          [] OTHER -> UNCHANGED <<game_data, next_state>>
    /\ ran' = ran \cup {"game_over_button_system"}
    /\ UNCHANGED <<menuOnly, menuVars>>

\* what the OnExit and OnEnter systems of a transition work on
World(w, gd, bs, sd) == [world |-> w, game_data |-> gd, boss_state |-> bs, save_data |-> sd]

Remove(w, kinds) ==
    [id \in DOMAIN w |-> IF w[id].kind \in kinds THEN Blank ELSE w[id]]

PlayerStart == <<0, 0 - WindowHeight \div 3>>

\* OnExit(Playing): cleanup_upgrade_ui (on_exit_playing only logs)
OnExitPlaying(W) ==
    [W EXCEPT !.game_data.upgrading = FALSE, !.world = Remove(@, {"upgrade_ui"})]

\* OnEnter(Playing): spawn_player, unless a Player exists (setup_hud is display only)
OnEnterPlaying(W) ==
    IF \E id \in DOMAIN W.world : W.world[id].kind = "player" THEN W
    ELSE [W EXCEPT !.world = Append(@, PlayerEntity(PlayerStart, FALSE, 0))]

\* a despawn_boss that leaves BossState as it is
OnEnterIdle_boss_stays_active(W) ==
    [W EXCEPT !.world = Remove(@, {"player", "weapon_bullet", "enemy", "bullet", "enemy_bullet",
                                   "boss", "boss_bullet"})]

\* OnEnter(Menu), OnEnter(GameOver), OnEnter(Recharge): despawn_player (the Player, the
\* AuraOrbs, the WeaponBullets), despawn_all_enemies, despawn_all_bullets (Bullet
\* components, the player's and the enemies'), despawn_boss (Boss, BossBullets)
OnEnterIdle(W) ==
    [W EXCEPT !.world = Remove(@, {"player", "weapon_bullet", "enemy", "bullet", "enemy_bullet",
                                   "boss", "boss_bullet"}),
              !.boss_state.active = FALSE,
              !.boss_state.current_health = 0]

\* OnEnter(GameOver): on_enter_game_over
on_enter_game_over(W) ==
    [W EXCEPT !.save_data.total_coins = @ + W.game_data.coins,
              !.save_data.high_score = Max(@, W.game_data.score)]

\* OnEnter(Recharge): on_enter_recharge
on_enter_recharge(r) == [r EXCEPT !.is_processing = FALSE]

\* The recharge systems run in Recharge only, and Recharge is entered again two frames
\* after it was left at the earliest: a message that was not read in the last frame
\* of Recharge has been dropped by Messages::update by then.
LeaveRecharge(r) == [r EXCEPT !.events = <<>>, !.result_events = <<>>]

TransitionRecharge(r, from, to) ==
    LET r1 == IF from = "Recharge" THEN LeaveRecharge(r) ELSE r
    IN  IF to = "Recharge" THEN on_enter_recharge(r1) ELSE r1

Transition(W, from, to) ==
    LET W1 == IF from = "Playing" THEN OnExitPlaying(W) ELSE W
        W2 == IF to = "Playing" THEN OnEnterPlaying(W1)
              ELSE IF to \in {"Menu", "GameOver", "Recharge"} THEN OnEnterIdle(W1)
              ELSE W1
    IN  IF to = "GameOver" THEN on_enter_game_over(W2) ELSE W2

\* The frame ends with a NextState queued (or, outside Playing, at all): the Commands
\* of the frame are applied, and the next frame begins with the StateTransition
\* schedule, which runs OnExit of the old state and OnEnter of the new one.  A return
\* to Playing is at least two frames away, so no CollisionEvent of this frame is
\* readable by then.
state_transition ==
    /\ FrameDone
    /\ IF state = "Playing" THEN next_state # "none" ELSE ran # {}
    /\ LET to == IF next_state = "none" THEN state ELSE next_state
           w0 == [id \in DOMAIN world |-> IF id \in cmds.despawn THEN Blank ELSE world[id]]
                    \o cmds.spawn
           W0 == World(w0, game_data, boss_state, save_data)
           W == IF to # state THEN Transition(W0, state, to) ELSE W0
           spawned == Len(W.world) > Len(w0)
       IN  /\ Len(W.world) <= MaxEntities
           /\ world' = W.world
           /\ game_data' = W.game_data
           /\ boss_state' = W.boss_state
           /\ save_data' = W.save_data
           /\ state' = to
           \* the new Player carries WeaponInventory::new() and a ShootCooldown at 0
           /\ inventory' = IF spawned THEN WeaponInventoryNew ELSE inventory
           /\ cooldown' = IF spawned THEN 0 ELSE cooldown
           /\ recharge' = IF to # state THEN TransitionRecharge(recharge, state, to)
                           ELSE recharge
    /\ msgs' = IF state = "Playing" THEN <<>> ELSE msgs
    /\ cmds' = NoCommands
    /\ next_state' = "none"
    /\ ran' = {}
    /\ gates' = {}
    \* a run starts when Playing is entered from the menu or the game-over screen
    /\ run_bosses' = IF state \in {"Menu", "GameOver"} /\ next_state = "Playing"
                     THEN {} ELSE run_bosses
    /\ UNCHANGED <<frame, hitlog, fired, calls, sched, spawn_timer, player_hits>>

----------------------------------------------------------------------------
(* Pause, level-up selection and boss trigger: game/states.rs, ui/menu.rs,  *)
(* ui/upgrade.rs, entities/boss.rs.  A key press or a pressed button is the *)
(* input of the action.                                                     *)

\* the variables the systems of this section leave alone
idleVars == <<msgs, frame, hitlog, fired, calls, sched, run_bosses, recharge, spawn_timer, player_hits,
              state,
              save_data>>

Ran(sys) ==
    /\ ran' = ran \cup {sys}
    /\ gates' = gates \cup {PluginOf(sys)}

handle_pause_input ==
    /\ CanRun("handle_pause_input")
    /\ \E escape \in BOOLEAN :
            next_state' = IF escape THEN "Paused" ELSE next_state
    /\ Ran("handle_pause_input")
    /\ UNCHANGED <<world, cmds, game_data, boss_state, inventory, cooldown, idleVars>>

handle_unpause_input ==
    /\ CanRun("handle_unpause_input")
    /\ \E escape_or_space \in BOOLEAN :
            next_state' = IF escape_or_space THEN "Playing" ELSE next_state
    /\ Ran("handle_unpause_input")
    /\ UNCHANGED <<world, cmds, game_data, boss_state, inventory, cooldown, idleVars>>

pause_button_system ==
    /\ CanRun("pause_button_system")
    /\ \E button \in {"Resume", "Menu", "none"} :
            next_state' = CASE button = "Resume" -> "Playing"
                            [] button = "Menu" -> "Menu"
                            [] OTHER -> next_state
    /\ Ran("pause_button_system")
    /\ UNCHANGED <<world, cmds, game_data, boss_state, inventory, cooldown, idleVars>>

is_max_level(weapon) == weapon.level >= MaxWeaponLevel

all_weapons_maxed(inv) ==
    /\ Len(inv.weapons) >= 5
    /\ \A k \in DOMAIN inv.weapons : is_max_level(inv.weapons[k])

WeaponChoice(weapon_type) == [choice |-> "Weapon", weapon_type |-> weapon_type]
RestoreLives == [choice |-> "RestoreLives", weapon_type |-> "none"]
RestoreShield == [choice |-> "RestoreShield", weapon_type |-> "none"]

get_upgrade_options(gd, inv) ==
    IF all_weapons_maxed(inv)
    THEN LET options == (IF gd.lives < gd.max_lives THEN {RestoreLives} ELSE {})
                            \cup (IF gd.shield < gd.max_shield THEN {RestoreShield} ELSE {})
         IN  IF options = {} THEN {RestoreLives, RestoreShield} ELSE options
    ELSE {WeaponChoice(inv.weapons[k].weapon_type) :
                k \in {k \in DOMAIN inv.weapons : inv.weapons[k].level < 5}}
         \cup (IF Len(inv.weapons) < 5
               THEN {WeaponChoice(wt) : wt \in {wt \in WeaponTypes : get_weapon_index(inv, wt) = 0}}
               ELSE {})

\* options.shuffle(&mut rng); options.truncate(3)
Offers(options) ==
    {o \in SUBSET options : Cardinality(o) = Min(3, Cardinality(options))}

Players(w) == {id \in DOMAIN w : w[id].kind = "player"}
UpgradeUis(w) == {id \in DOMAIN w : w[id].kind = "upgrade_ui"}

\* spawn_upgrade_ui: the UpgradeRoot and its buttons
UpgradeUi(options) == [Blank EXCEPT !.kind = "upgrade_ui", !.options = options]

check_level_up ==
    /\ CanRun("check_level_up")
    /\ IF ~game_data.upgrading \/ UpgradeUis(world) # {}
       THEN UNCHANGED <<game_data, cmds>>
       ELSE IF Cardinality(Players(world)) # 1
       THEN game_data' = [game_data EXCEPT !.upgrading = FALSE] /\ UNCHANGED cmds
       ELSE LET options == get_upgrade_options(game_data, inventory)
            IN  IF options = {}
                THEN game_data' = [game_data EXCEPT !.upgrading = FALSE] /\ UNCHANGED cmds
                ELSE /\ \E offer \in Offers(options) :
                            cmds' = [cmds EXCEPT !.spawn = Append(@, UpgradeUi(offer))]
                     /\ UNCHANGED game_data
    /\ Ran("check_level_up")
    /\ UNCHANGED <<world, boss_state, next_state, inventory, cooldown, idleVars>>

\* the first pressed UpgradeButton, if any
handle_upgrade_selection ==
    /\ CanRun("handle_upgrade_selection")
    /\ \/ UNCHANGED <<game_data, inventory, cmds>>
       \/ \E ui \in UpgradeUis(world) : \E pressed \in world[ui].options :
            /\ inventory' =
                    IF pressed.choice = "Weapon" /\ Cardinality(Players(world)) = 1
                    THEN add_or_upgrade(inventory, pressed.weapon_type)
                    ELSE inventory
            /\ game_data' =
                    [(CASE pressed.choice = "RestoreLives" -> heal(game_data, 1)
                        [] pressed.choice = "RestoreShield" -> restore_shield(game_data, 2)
                        [] OTHER -> game_data)
                     EXCEPT !.upgrading = FALSE]
            /\ cmds' = [cmds EXCEPT !.despawn = @ \cup UpgradeUis(world)]
    /\ Ran("handle_upgrade_selection")
    /\ UNCHANGED <<world, boss_state, next_state, cooldown, idleVars>>

BossSpawnY == WindowHeight \div 2 + 100

\* check_boss_spawn, with BossType::TriangleFighter for the random boss type:
\* health = (base_health as f32 * (1.0 + (boss_level / 10 - 1) * 1.0)) as i32
check_boss_spawn ==
    /\ CanRun("check_boss_spawn")
    /\ LET boss_level == (game_data.player_level \div 10) * 10
           health == TriangleFighterHealth * (boss_level \div 10)
       IN  IF boss_state.active \/ Bosses(world) # {}
              \/ boss_level = 0 \/ boss_level <= boss_state.last_boss_level
           THEN UNCHANGED <<boss_state, cmds, run_bosses>>
           ELSE /\ boss_state' = [active |-> TRUE, last_boss_level |-> boss_level,
                                  total_health |-> health, current_health |-> health]
                /\ cmds' = [cmds EXCEPT !.spawn =
                                Append(@, Boss(<<0, BossSpawnY>>, health, health, 1, FALSE))]
                /\ run_bosses' = run_bosses \cup {boss_level}
    /\ Ran("check_boss_spawn")
    /\ UNCHANGED <<world, game_data, next_state, inventory, cooldown, msgs, frame, hitlog,
                   fired, calls, sched, spawn_timer, player_hits, state, save_data,
                   recharge>>

----------------------------------------------------------------------------
(* storage/recharge.rs, the web build (target_arch = "wasm32"): the page    *)
(* pushes the commands of its buttons, and the response of a request, on    *)
(* two queues that the systems drain.  The page's handlers and the fetch    *)
(* run between two frames.                                                  *)

MaxSubmits == 2        \* presses of the page's submit button
MaxQueue == 2          \* commands waiting on JS_RECHARGE_COMMANDS

\* the variables the recharge systems leave alone
rechargeOnly == <<world, msgs, cmds, game_data, boss_state, frame, hitlog, weaponVars,
                 sched, run_bosses, spawn_timer, player_hits, state>>

BetweenFrames == ran = {}

\* submit_recharge_form (lib.rs): enqueue_recharge_submit; the form may or may not
\* pass validate_username and validate_order_id
enqueue_recharge_submit ==
    /\ state = "Recharge" /\ BetweenFrames
    /\ recharge.submitted < MaxSubmits
    /\ Len(recharge.commands) < MaxQueue
    /\ \E valid \in BOOLEAN :
            recharge' = [recharge EXCEPT
                            !.commands = Append(@, [cmd |-> "Submit", valid |-> valid]),
                            !.submitted = @ + 1]
    /\ UNCHANGED <<rechargeOnly, ran, gates, next_state, save_data>>

\* cancel_recharge (lib.rs): enqueue_recharge_cancel
enqueue_recharge_cancel ==
    /\ state = "Recharge" /\ BetweenFrames
    /\ Len(recharge.commands) < MaxQueue
    /\ recharge' = [recharge EXCEPT
                        !.commands = Append(@, [cmd |-> "Cancel", valid |-> TRUE])]
    /\ UNCHANGED <<rechargeOnly, ran, gates, next_state, save_data>>

\* the future of send_recharge_request completes: enqueue_recharge_result
enqueue_recharge_result ==
    /\ BetweenFrames
    /\ recharge.pending > 0
    /\ \E success \in BOOLEAN :
            recharge' = [recharge EXCEPT !.pending = @ - 1,
                                        !.results = Append(@, success),
                                        !.pushed = @ + 1]
    /\ UNCHANGED <<rechargeOnly, ran, gates, next_state, save_data>>

drain_js_bridge_commands ==
    /\ CanRun("drain_js_bridge_commands")
    /\ LET submits == SelectSeq(recharge.commands, LAMBDA c : c.cmd = "Submit")
           cancelled == \E k \in DOMAIN recharge.commands : recharge.commands[k].cmd = "Cancel"
       IN  /\ recharge' = [recharge EXCEPT
                                !.commands = <<>>,
                                !.events = @ \o [k \in DOMAIN submits |-> submits[k].valid]]
           /\ next_state' = IF cancelled THEN "Menu" ELSE next_state
    /\ Ran("drain_js_bridge_commands")
    /\ UNCHANGED <<rechargeOnly, save_data>>

\* the body of the loop over events.read()
RechargeEventStep(r, valid) ==
    IF r.is_processing THEN r
    ELSE IF ~valid THEN r
    ELSE [r EXCEPT !.is_processing = TRUE, !.pending = @ + 1, !.sent = @ + 1]

RECURSIVE ProcessRechargeEvents(_, _)
ProcessRechargeEvents(r, events) ==
    IF events = <<>> THEN r
    ELSE ProcessRechargeEvents(RechargeEventStep(r, Head(events)), Tail(events))

process_recharge_events ==
    /\ CanRun("process_recharge_events")
    /\ recharge' = [ProcessRechargeEvents(recharge, recharge.events) EXCEPT !.events = <<>>]
    /\ Ran("process_recharge_events")
    /\ UNCHANGED <<rechargeOnly, next_state, save_data>>

drain_recharge_results ==
    /\ CanRun("drain_recharge_results")
    /\ recharge' = [recharge EXCEPT !.results = <<>>,
                                    !.result_events = @ \o recharge.results]
    /\ Ran("drain_recharge_results")
    /\ UNCHANGED <<rechargeOnly, next_state, save_data>>

\* the successes among the results
Successes(results) == Len(SelectSeq(results, LAMBDA success : success))

handle_recharge_result ==
    /\ CanRun("handle_recharge_result")
    /\ IF recharge.result_events = <<>>
       THEN UNCHANGED <<recharge, save_data>>
       ELSE /\ recharge' = [recharge EXCEPT !.is_processing = FALSE,
                                            !.result_events = <<>>,
                                            !.handled = @ + Len(recharge.result_events)]
            /\ save_data' = [save_data EXCEPT
                                !.total_coins = @ + 100 * Successes(recharge.result_events)]
    /\ Ran("handle_recharge_result")
    /\ UNCHANGED <<rechargeOnly, next_state>>

----------------------------------------------------------------------------
(* Combat scenarios: a projectile of the player (or a lightning cast), two  *)
(* Small enemies and possibly a boss, somewhere in the middle of a run.     *)

ProjectileKinds ==
    {"bullet", "pellet", "pierce1", "pierce2_hit_list", "laser",
     "rocket", "rocket_expiring", "cast"}

ProjectileOf(kind) ==
    CASE kind = "bullet"           -> PlayerBullet(<<0, 175>>)
      [] kind = "pellet"           -> ShotgunPellet(<<0, 175>>)
      [] kind = "pierce1"          -> PiercingBullet(<<0, 175>>, 1, FALSE)
      [] kind = "pierce2_hit_list" -> PiercingBullet(<<0, 175>>, 2, TRUE)
      [] kind = "laser"            -> LaserBeam(<<0, 175>>, 1)
      [] kind = "rocket"           -> Rocket(<<0, 140>>, 1, 3000)
      [] kind = "rocket_expiring"  -> Rocket(<<0, 140>>, 1, 100)
      [] kind = "cast"             -> LightningCast(<<0, 0>>, 1)

BossKinds == {"none", "entering", "entered", "wounded"}

BossOf(kind) ==
    CASE kind = "entering" ->
            <<Boss(<<0, 250>>, TriangleFighterHealth, TriangleFighterHealth, 1, FALSE)>>
      [] kind = "entered" ->
            <<[Boss(<<0, 240>>, 961, TriangleFighterHealth, 1, TRUE)
                    EXCEPT !.attack_timer = 100]>>
      [] kind = "wounded" ->
            <<[Boss(<<0, 240>>, 3, TriangleFighterHealth, 3, TRUE)
                    EXCEPT !.attack_timer = 500]>>
      [] OTHER -> <<>>

RECURSIVE ExpBelow(_)
\* the experience (and score) it takes to arrive at a level
ExpBelow(level) == IF level <= 1 THEN 0 ELSE exp_for_level(level - 1) + ExpBelow(level - 1)

ScenarioWorld(projectile, boss, player_level) ==
    <<ProjectileOf(projectile),
      SmallEnemy(<<0, 185>>, player_level, IF player_level = 1 THEN 0 ELSE 3),
      SmallEnemy(<<0, 165>>, player_level, 0)>>
    \o BossOf(boss)

ScenarioGameData(player_level, experience) ==
    [GameDataNew EXCEPT !.player_level = player_level, !.experience = experience,
                        !.score = ExpBelow(player_level) + experience,
                        !.high_score = ExpBelow(player_level) + experience]

ScenarioBossState(w) ==
    IF \E id \in DOMAIN w : w[id].kind = "boss"
    THEN LET id == CHOOSE id \in DOMAIN w : w[id].kind = "boss"
         IN  [active |-> TRUE, last_boss_level |-> 10,
              total_health |-> w[id].max_health, current_health |-> w[id].health]
    ELSE BossStateDefault

Init ==
    /\ \E projectile \in ProjectileKinds, boss \in BossKinds :
        LET player_level == IF boss = "none" THEN 1 ELSE 10
        IN  /\ world = ScenarioWorld(projectile, boss, player_level)
            /\ boss_state = ScenarioBossState(world)
            /\ \E experience \in IF boss = "entered"
                                 THEN {0, exp_for_level(player_level) - 100}
                                 ELSE {0} :
                    game_data = ScenarioGameData(player_level, experience)
    /\ msgs = <<>>
    /\ cmds = NoCommands
    /\ ran = {}
    /\ gates = {}
    /\ frame = 0
    /\ hitlog = <<>>
    /\ inventory = WeaponInventoryNew
    /\ cooldown = 0
    /\ fired = NothingFired
    /\ calls = NoCalls
    /\ InitExtra

Next ==
    \/ detect_collisions
    \/ update_weapon_bullets
    \/ update_rocket_bullets
    \/ resolve_lightning_casts
    \/ enemy_collision_handler
    \/ boss_behavior
    \/ boss_collision_handler
    \/ end_frame

Spec == Init /\ [][Next]_vars

----------------------------------------------------------------------------
(* The phase function on its own: a boss in the fight with any health up to *)
(* its max_health, and one run of boss_behavior.                            *)

PhaseMaxHealths == {1000, TriangleFighterHealth}

InitPhase ==
    /\ \E max_health \in PhaseMaxHealths :
        \E health \in 0..max_health :
            world = <<[Boss(<<0, 240>>, health, max_health, 1, TRUE)
                            EXCEPT !.attack_timer = 500]>>
    /\ boss_state = ScenarioBossState(world)
    /\ game_data = ScenarioGameData(10, 0)
    /\ msgs = <<>>
    /\ cmds = NoCommands
    /\ ran = {}
    /\ gates = {}
    /\ frame = 0
    /\ hitlog = <<>>
    /\ inventory = WeaponInventoryNew
    /\ cooldown = 0
    /\ fired = NothingFired
    /\ calls = NoCalls
    /\ InitExtra

NextPhase == boss_behavior

SpecPhase == InitPhase /\ [][NextPhase]_vars

----------------------------------------------------------------------------
(* Rockets on their own: one level-1 rocket (damage 3, explosion radius 35), *)
(* about to touch an enemy, to time out or to leave the play area, among    *)
(* Small enemies of player level 10 (health 4), some of them exactly 35     *)
(* pixels from where the rocket explodes.                                   *)

RocketStarts == {<<0, 100>>, <<0, 130>>, <<0, 140>>, <<0, 400>>}
RocketLifetimes == {100, 3000}

RocketWorld(start, lifetime) ==
    <<Rocket(start, 1, lifetime),
      SmallEnemy(<<0, 185>>, 10, 0),
      SmallEnemy(<<0, 165>>, 10, 0),
      SmallEnemy(<<28, 161>>, 10, 0),
      SmallEnemy(<<21, 422>>, 10, 0)>>

InitRocket ==
    /\ \E start \in RocketStarts, lifetime \in RocketLifetimes :
            world = RocketWorld(start, lifetime)
    /\ boss_state = BossStateDefault
    /\ game_data = ScenarioGameData(10, 0)
    /\ msgs = <<>>
    /\ cmds = NoCommands
    /\ ran = {}
    /\ gates = {}
    /\ frame = 0
    /\ hitlog = <<>>
    /\ inventory = WeaponInventoryNew
    /\ cooldown = 0
    /\ fired = NothingFired
    /\ calls = NoCalls
    /\ InitExtra

SpecRocket == InitRocket /\ [][Next]_vars

----------------------------------------------------------------------------
(* Lightning on its own: one level-1 cast (4 jumps, range 330, damage 4)    *)
(* among five Small enemies and possibly a boss: more targets than jumps,   *)
(* targets that only a later hop can reach, and a target exactly `range`    *)
(* away.                                                                    *)

CastStarts == {<<0, 0>>, <<0, 0 - 165>>, <<0, 0 - 200>>}
CastBossKinds == {"none", "entered", "wounded"}

CastWorld(start, boss) ==
    <<LightningCast(start, 1),
      SmallEnemy(<<0, 185>>, 10, 3),
      SmallEnemy(<<0, 165>>, 10, 0),
      SmallEnemy(<<200, 300>>, 10, 0),
      SmallEnemy(<<0, 330>>, 10, 0),
      SmallEnemy(<<200, 100>>, 10, 0)>>
    \o BossOf(boss)

InitCast ==
    /\ \E start \in CastStarts, boss \in CastBossKinds :
            world = CastWorld(start, boss)
    /\ boss_state = ScenarioBossState(world)
    /\ game_data = ScenarioGameData(10, 0)
    /\ msgs = <<>>
    /\ cmds = NoCommands
    /\ ran = {}
    /\ gates = {}
    /\ frame = 0
    /\ hitlog = <<>>
    /\ inventory = WeaponInventoryNew
    /\ cooldown = 0
    /\ fired = NothingFired
    /\ calls = NoCalls
    /\ InitExtra

SpecCast == InitCast /\ [][Next]_vars

----------------------------------------------------------------------------
(* The spawn director on its own: any player level up to MaxLevel, a boss   *)
(* fight possible from level 10 on, and the spawn timer anywhere below the  *)
(* interval.                                                                *)

MaxLevel == 10

SpawnBossKinds(level) == IF level >= 10 THEN {"none", "entered"} ELSE {"none"}

InitSpawn ==
    /\ \E level \in 1..MaxLevel :
        /\ \E boss \in SpawnBossKinds(level) : world = BossOf(boss)
        /\ game_data = ScenarioGameData(level, 0)
        /\ boss_state = ScenarioBossState(world)
        /\ \E k \in 0..29 :
            /\ k * Delta < SpawnInterval(level, boss_state.active)
            /\ spawn_timer = [timer |-> k * Delta,
                              interval |-> SpawnInterval(level, boss_state.active)]
    /\ sched = {"spawn_enemies"}
    /\ recharge = RechargeDefault
    /\ run_bosses = {}
    /\ InitPlayer
    /\ InitSave
    /\ msgs = <<>>
    /\ cmds = NoCommands
    /\ ran = {}
    /\ gates = {}
    /\ frame = 0
    /\ hitlog = <<>>
    /\ inventory = WeaponInventoryNew
    /\ cooldown = 0
    /\ fired = NothingFired
    /\ calls = NoCalls

NextSpawn == spawn_enemies \/ end_frame

SpecSpawn == InitSpawn /\ [][NextSpawn]_vars

----------------------------------------------------------------------------
(* The end of a boss fight: the combat scenarios with a boss that has one   *)
(* or three health points left.                                             *)

LastHealths == {1, 3}

InitBossKill ==
    /\ \E projectile \in ProjectileKinds, health \in LastHealths :
            world = <<ProjectileOf(projectile),
                      SmallEnemy(<<0, 185>>, 10, 3),
                      SmallEnemy(<<0, 165>>, 10, 0),
                      [Boss(<<0, 240>>, health, TriangleFighterHealth, 3, TRUE)
                            EXCEPT !.attack_timer = 500]>>
    /\ boss_state = ScenarioBossState(world)
    /\ game_data = ScenarioGameData(10, 0)
    /\ msgs = <<>>
    /\ cmds = NoCommands
    /\ ran = {}
    /\ gates = {}
    /\ frame = 0
    /\ hitlog = <<>>
    /\ inventory = WeaponInventoryNew
    /\ cooldown = 0
    /\ fired = NothingFired
    /\ calls = NoCalls
    /\ InitExtra

SpecBossKill == InitBossKill /\ [][Next]_vars

----------------------------------------------------------------------------
(* A pending upgrade selection: a kill that completes a level, or a tick    *)
(* that starts with GameData.upgrading already set, with the systems that   *)
(* are held back by not_upgrading and those that are not.                   *)

FreezeSystems ==
    {"detect_collisions", "update_weapon_bullets", "enemy_collision_handler",
     "spawn_enemies", "update_scrollable_entities", "update_game_time"}

InitFreeze ==
    /\ \E projectile \in {"bullet", "pellet"}, upgrading \in BOOLEAN :
        /\ world = ScenarioWorld(projectile, "none", 1) \o <<CoinPowerUp(<<100, 100>>)>>
        /\ game_data = [ScenarioGameData(1, exp_for_level(1) - 50) EXCEPT
                                !.upgrading = upgrading]
    /\ boss_state = BossStateDefault
    /\ \E k \in {0, 14} : spawn_timer = [EnemySpawnTimerDefault EXCEPT !.timer = k * Delta]
    /\ sched = FreezeSystems
    /\ recharge = RechargeDefault
    /\ run_bosses = {}
    /\ InitPlayer
    /\ InitSave
    /\ msgs = <<>>
    /\ cmds = NoCommands
    /\ ran = {}
    /\ gates = {}
    /\ frame = 0
    /\ hitlog = <<>>
    /\ inventory = WeaponInventoryNew
    /\ cooldown = 0
    /\ fired = NothingFired
    /\ calls = NoCalls

NextFreeze ==
    \/ detect_collisions
    \/ update_weapon_bullets
    \/ enemy_collision_handler
    \/ spawn_enemies
    \/ update_scrollable_entities
    \/ update_game_time
    \/ end_frame

SpecFreeze == InitFreeze /\ [][NextFreeze]_vars

----------------------------------------------------------------------------
(* The player among things that hit it: an enemy, an enemy bullet and a     *)
(* shield power-up, each overlapping the player or not, with every shield   *)
(* and lives the run can have and the invincibility on, about to end, or off *)

MaxStartShield == 2         \* GameData.shield at the start of the scenario

PlayerSystems == {"detect_collisions", "player_collision_handler", "update_invincibility"}

Near(overlaps, pos) == IF overlaps THEN pos ELSE <<pos[1] + 300, pos[2]>>

InitPlayerHit ==
    /\ \E enemy \in BOOLEAN, bullet \in BOOLEAN, power_up \in BOOLEAN,
          timer \in {0, Delta, InvincibleTime} :
            world = <<PlayerEntity(<<0, 0>>, timer > 0, timer),
                      SmallEnemy(Near(enemy, <<0, 20>>), 1, 0),
                      EnemyBullet(Near(bullet, <<10, 0>>), <<0, -250>>),
                      ShieldPowerUp(Near(power_up, <<-20, 0>>))>>
    /\ \E shield \in 0..MaxStartShield, lives \in {1, 3} :
            game_data = [GameDataNew EXCEPT !.shield = shield, !.lives = lives]
    /\ boss_state = BossStateDefault
    /\ sched = PlayerSystems
    /\ recharge = RechargeDefault
    /\ run_bosses = {}
    /\ spawn_timer = EnemySpawnTimerDefault
    /\ InitPlayer
    /\ InitSave
    /\ msgs = <<>>
    /\ cmds = NoCommands
    /\ ran = {}
    /\ gates = {}
    /\ frame = 0
    /\ hitlog = <<>>
    /\ inventory = WeaponInventoryNew
    /\ cooldown = 0
    /\ fired = NothingFired
    /\ calls = NoCalls

NextPlayerHit ==
    \/ detect_collisions
    \/ player_collision_handler
    \/ update_invincibility
    \/ end_frame

SpecPlayerHit == InitPlayerHit /\ [][NextPlayerHit]_vars

----------------------------------------------------------------------------
(* Between runs: the menu as the application shows it first, or the         *)
(* game-over screen after a run, with any saved upgrade levels and coins.   *)

MaxSavedCoins == 130

MenuSystems ==
    {"menu_button_system", "menu_upgrade_button_system", "menu_keyboard_start",
     "game_over_button_system"}

InitRunStart ==
    /\ \E hull \in 0..2, shield \in 0..2, total_coins \in {0, 30, MaxSavedCoins} :
            save_data = [high_score |-> 500, total_coins |-> total_coins,
                         hull_upgrade_level |-> hull, shield_upgrade_level |-> shield]
    /\ \/ state = "Menu" /\ game_data = GameDataNew
       \/ /\ state = "GameOver"
          /\ \E before \in {"Start", "Restart"} :
                game_data = [(IF before = "Start"
                              THEN ApplyUpgrades(reset(GameDataNew), save_data)
                              ELSE reset(GameDataNew))
                                EXCEPT !.lives = 0, !.score = 500, !.high_score = 500]
    /\ world = <<>>
    /\ boss_state = BossStateDefault
    /\ sched = MenuSystems
    /\ recharge = RechargeDefault
    /\ run_bosses = {}
    /\ spawn_timer = EnemySpawnTimerDefault
    /\ InitPlayer
    /\ msgs = <<>>
    /\ cmds = NoCommands
    /\ ran = {}
    /\ gates = {}
    /\ frame = 0
    /\ hitlog = <<>>
    /\ inventory = WeaponInventoryNew
    /\ cooldown = 0
    /\ fired = NothingFired
    /\ calls = NoCalls

NextRunStart ==
    \/ menu_button_system
    \/ menu_upgrade_button_system
    \/ menu_keyboard_start
    \/ game_over_button_system
    \/ state_transition

SpecRunStart == InitRunStart /\ [][NextRunStart]_vars

----------------------------------------------------------------------------
(* A level-up in a run: a kill that completes level 1, or a selection that  *)
(* is already pending, with the Escape key and the pause menu at hand.      *)

UpgradeSystems ==
    {"detect_collisions", "enemy_collision_handler", "check_level_up",
     "handle_upgrade_selection", "handle_pause_input", "handle_unpause_input",
     "pause_button_system"}

InitUpgrade ==
    /\ \E projectile \in {"bullet", "pellet"} :
            world = ScenarioWorld(projectile, "none", 1)
                        \o <<PlayerEntity(PlayerStart, FALSE, 0)>>
    /\ \/ game_data = ScenarioGameData(1, exp_for_level(1) - 50)
       \/ game_data = add_score(ScenarioGameData(1, exp_for_level(1) - 50), 50)
    /\ boss_state = BossStateDefault
    /\ sched = UpgradeSystems
    /\ recharge = RechargeDefault
    /\ run_bosses = {}
    /\ spawn_timer = EnemySpawnTimerDefault
    /\ InitPlayer
    /\ InitSave
    /\ msgs = <<>>
    /\ cmds = NoCommands
    /\ ran = {}
    /\ gates = {}
    /\ frame = 0
    /\ hitlog = <<>>
    /\ inventory = WeaponInventoryNew
    /\ cooldown = 0
    /\ fired = NothingFired
    /\ calls = NoCalls

NextUpgrade ==
    \/ detect_collisions
    \/ enemy_collision_handler
    \/ check_level_up
    \/ handle_upgrade_selection
    \/ handle_pause_input
    \/ handle_unpause_input
    \/ pause_button_system
    \/ end_frame
    \/ state_transition

SpecUpgrade == InitUpgrade /\ [][NextUpgrade]_vars

----------------------------------------------------------------------------
(* Runs and what lies between them: a run at level 10 with one life left,   *)
(* an enemy bullet that may hit the player, a coin an earlier kill dropped, *)
(* and either no boss yet (in the first run, or in a later run after a run  *)
(* that met its boss) or a boss on its last health point under a bullet.    *)

RunSystems ==
    {"detect_collisions", "player_collision_handler", "boss_collision_handler",
     "check_boss_spawn", "handle_pause_input", "handle_unpause_input",
     "pause_button_system", "game_over_button_system", "menu_button_system"}

LastBossLevels == {0, 10}

InitRuns ==
    /\ \E hit \in BOOLEAN, boss \in BOOLEAN, last \in LastBossLevels :
        /\ boss => last = 10
        /\ world = <<PlayerEntity(PlayerStart, FALSE, 0),
                     EnemyBullet(Near(hit, <<10, PlayerStart[2]>>), <<0, -250>>),
                     CoinPowerUp(<<200, 0>>)>>
                   \o (IF boss
                       THEN <<Boss(<<0, BossEntryTargetY>>, 1, TriangleFighterHealth, 3, TRUE),
                              PlayerBullet(<<0, BossEntryTargetY>>)>>
                       ELSE <<>>)
        /\ boss_state = IF boss
                        THEN [active |-> TRUE, last_boss_level |-> 10,
                              total_health |-> TriangleFighterHealth, current_health |-> 1]
                        ELSE [BossStateDefault EXCEPT !.last_boss_level = last]
        /\ run_bosses = IF boss THEN {10} ELSE {}
    /\ game_data = [ScenarioGameData(10, 0) EXCEPT !.lives = 1]
    /\ sched = RunSystems
    /\ recharge = RechargeDefault
    /\ spawn_timer = EnemySpawnTimerDefault
    /\ InitPlayer
    /\ InitSave
    /\ msgs = <<>>
    /\ cmds = NoCommands
    /\ ran = {}
    /\ gates = {}
    /\ frame = 0
    /\ hitlog = <<>>
    /\ inventory = WeaponInventoryNew
    /\ cooldown = 0
    /\ fired = NothingFired
    /\ calls = NoCalls

NextRuns ==
    \/ detect_collisions
    \/ player_collision_handler
    \/ boss_collision_handler
    \/ check_boss_spawn
    \/ handle_pause_input
    \/ handle_unpause_input
    \/ pause_button_system
    \/ game_over_button_system
    \/ menu_button_system
    \/ end_frame
    \/ state_transition

SpecRuns == InitRuns /\ [][NextRuns]_vars

----------------------------------------------------------------------------
(* The counters of a run: a run started from the menu with the saved        *)
(* upgrades, at full lives and shield or on the last life, one kill away    *)
(* from level 2, with an enemy bullet and a power-up at the player, and     *)
(* every weapon at its cap, so that the selection offers the two restores.  *)

StatSystems ==
    {"detect_collisions", "player_collision_handler", "enemy_collision_handler",
     "check_level_up", "handle_upgrade_selection", "game_over_button_system",
     "menu_button_system"}

\* a weapon levelled up to the cap
MaxedWeapon(weapon_type) ==
    [WeaponNew(weapon_type) EXCEPT
        !.level = MaxWeaponLevel,
        !.cooldown = (base_cooldown(weapon_type) * (11 - MaxWeaponLevel)) \div 10]

MaxedInventory ==
    [weapons |-> <<MaxedWeapon("Shotgun"), MaxedWeapon("Rocket"), MaxedWeapon("Laser"),
                   MaxedWeapon("Homing"), MaxedWeapon("Lightning")>>,
     has_default_bullet |-> FALSE]

PowerUpOf(power_type) == [ShieldPowerUp(<<-20, 0>>) EXCEPT !.power_type = power_type]

InitStats ==
    /\ \E hit \in BOOLEAN, power_type \in {"Shield", "ExtraLife"} :
            world = <<PlayerEntity(<<0, 0>>, FALSE, 0),
                      EnemyBullet(Near(hit, <<10, 0>>), <<0, -250>>),
                      PowerUpOf(power_type),
                      PlayerBullet(<<0, 175>>),
                      SmallEnemy(<<0, 185>>, 1, 0)>>
    /\ \E hull \in {0, 2}, shield \in {0, 2}, full \in BOOLEAN :
        /\ save_data = [SaveDataDefault EXCEPT !.hull_upgrade_level = hull,
                                               !.shield_upgrade_level = shield]
        /\ LET gd == ApplyUpgrades(ScenarioGameData(1, exp_for_level(1) - 50), save_data)
           IN  game_data = IF full THEN [gd EXCEPT !.lives = gd.max_lives,
                                                   !.shield = gd.max_shield]
                           ELSE [gd EXCEPT !.lives = 1]
    /\ inventory = MaxedInventory
    /\ state = "Playing"
    /\ boss_state = BossStateDefault
    /\ sched = StatSystems
    /\ recharge = RechargeDefault
    /\ run_bosses = {}
    /\ spawn_timer = EnemySpawnTimerDefault
    /\ InitPlayer
    /\ msgs = <<>>
    /\ cmds = NoCommands
    /\ ran = {}
    /\ gates = {}
    /\ frame = 0
    /\ hitlog = <<>>
    /\ cooldown = 0
    /\ fired = NothingFired
    /\ calls = NoCalls

NextStats ==
    \/ detect_collisions
    \/ player_collision_handler
    \/ enemy_collision_handler
    \/ check_level_up
    \/ handle_upgrade_selection
    \/ game_over_button_system
    \/ menu_button_system
    \/ end_frame
    \/ state_transition

SpecStats == InitStats /\ [][NextStats]_vars

----------------------------------------------------------------------------
(* The recharge screen, from the menu: the player may submit the form,      *)
(* cancel, and come back, while the responses arrive when they arrive.      *)

RechargeSystems ==
    {"menu_button_system", "drain_js_bridge_commands", "process_recharge_events",
     "drain_recharge_results", "handle_recharge_result"}

InitRecharge ==
    /\ state = "Menu"
    /\ save_data = SaveDataDefault
    /\ world = <<>>
    /\ game_data = GameDataNew
    /\ boss_state = BossStateDefault
    /\ sched = RechargeSystems
    /\ recharge = RechargeDefault
    /\ run_bosses = {}
    /\ spawn_timer = EnemySpawnTimerDefault
    /\ InitPlayer
    /\ msgs = <<>>
    /\ cmds = NoCommands
    /\ ran = {}
    /\ gates = {}
    /\ frame = 0
    /\ hitlog = <<>>
    /\ inventory = WeaponInventoryNew
    /\ cooldown = 0
    /\ fired = NothingFired
    /\ calls = NoCalls

NextRecharge ==
    \/ menu_button_system
    \/ enqueue_recharge_submit
    \/ enqueue_recharge_cancel
    \/ enqueue_recharge_result
    \/ drain_js_bridge_commands
    \/ process_recharge_events
    \/ drain_recharge_results
    \/ handle_recharge_result
    \/ state_transition

SpecRecharge == InitRecharge /\ [][NextRecharge]_vars

----------------------------------------------------------------------------
(* Properties *)

FreshEvents == SelectSeq(msgs, LAMBDA m : m.age = 0)

EventsOn(a, b) ==
    {k \in DOMAIN FreshEvents :
        {FreshEvents[k].ev.entity_a, FreshEvents[k].ev.entity_b} = {a, b}}

\* "mask m permits layer l", read off the mask's fields
MaskPermits(m, l) ==
    \/ l = "Player" /\ m.player
    \/ l = "PlayerBullet" /\ m.player_bullet
    \/ l = "Enemy" /\ m.enemy
    \/ l = "EnemyBullet" /\ m.enemy_bullet
    \/ l = "PowerUp" /\ m.power_up

HasCollider(id) == Exists(world, id) /\ world[id].collider

EitherPermits(a, b) ==
    \/ MaskPermits(world[a].mask, world[b].layer)
    \/ MaskPermits(world[b].mask, world[a].layer)

Overlap(a, b) == check_collision(world[a].pos, world[a].shape, world[b].pos, world[b].shape)

\* C1: when neither collider's mask permits the other's layer, a run of
\* detect_collisions emits no event for the pair, whatever the shapes and positions.
C1_MaskGating ==
    "detect_collisions" \in ran =>
        \A a, b \in DOMAIN world :
            (HasCollider(a) /\ HasCollider(b) /\ ~EitherPermits(a, b)) => EventsOn(a, b) = {}

C1_Witness ==
    /\ "detect_collisions" \in ran
    /\ \E a, b \in DOMAIN world :
        /\ a # b /\ HasCollider(a) /\ HasCollider(b)
        /\ ~EitherPermits(a, b) /\ Overlap(a, b)
        /\ EventsOn(a, b) = {}

\* C2: one run of detect_collisions emits exactly one event for each unordered pair
\* of colliders that overlap and of which at least one mask permits the other's
\* layer, no event for any other pair, and none naming an entity without a Collider.
C2_ExactPairs ==
    "detect_collisions" \in ran =>
        /\ \A a, b \in DOMAIN world :
            a < b =>
                Cardinality(EventsOn(a, b)) =
                    IF HasCollider(a) /\ HasCollider(b) /\ Overlap(a, b) /\ EitherPermits(a, b)
                    THEN 1 ELSE 0
        /\ \A k \in DOMAIN FreshEvents :
            LET e == FreshEvents[k].ev
            IN  e.entity_a # e.entity_b /\ HasCollider(e.entity_a) /\ HasCollider(e.entity_b)

C2_Witness ==
    /\ "detect_collisions" \in ran
    /\ Len(FreshEvents) = 1
    /\ \E a, b \in DOMAIN world :
        /\ a < b /\ Cardinality(EventsOn(a, b)) = 1
        /\ ~MaskPermits(world[a].mask, world[b].layer)
        /\ MaskPermits(world[b].mask, world[a].layer)
    /\ \E c \in DOMAIN world : ~HasCollider(c)

WeaponsOf(inv) == {inv.weapons[k] : k \in DOMAIN inv.weapons}

\* C8: after any sequence of add_or_upgrade calls from WeaponInventory::new(), the
\* inventory holds at most 5 weapons, at most one per WeaponType, each of level 1..5.
C8_InventoryBounds ==
    /\ Len(inventory.weapons) <= 5
    /\ \A j, k \in DOMAIN inventory.weapons :
        inventory.weapons[j].weapon_type = inventory.weapons[k].weapon_type => j = k
    /\ \A k \in DOMAIN inventory.weapons :
        inventory.weapons[k].level >= 1 /\ inventory.weapons[k].level <= 5

\* five weapons held, a sixth type was named and rejected
C8_Witness ==
    /\ Len(inventory.weapons) = 5
    /\ Cardinality(calls.types) = 6

\* C9: has_default_bullet is true exactly as long as no add_or_upgrade call has named
\* a weapon type other than Aura (it starts true, the first such call clears it, Aura
\* calls leave it alone, and it never becomes true again).
C9_DefaultBulletFlag ==
    inventory.has_default_bullet <=> (calls.types \subseteq {"Aura"})

C9_Witness ==
    /\ Len(inventory.weapons) >= 2
    /\ inventory.weapons[1].weapon_type = "Aura"
    /\ ~inventory.has_default_bullet

ShotgunReady(k) ==
    /\ k \in DOMAIN inventory.weapons
    /\ inventory.weapons[k].weapon_type = "Shotgun"
    /\ inventory.weapons[k].timer <= 0

C10_Step ==
    fired'.ran =>
        /\ inventory.weapons = <<>> =>
            /\ fired'.pellets = 0
            /\ \/ fired'.bullets = 1 /\ fired'.bullet_damage = 1
                  /\ cooldown' = ShootCooldownCooldown
               \/ fired'.bullets = 0 /\ cooldown' > 0 /\ cooldown' < cooldown
        /\ \A k \in DOMAIN inventory.weapons :
            ShotgunReady(k) =>
                /\ fired'.pellets = 2 + (inventory.weapons[k].level - 1) * 2
                /\ fired'.bullets = 0

\* C10: a run of auto_shoot_weapons with an empty inventory spawns one default Bullet
\* of damage 1 when the shoot cooldown has elapsed and nothing otherwise; with a
\* Shotgun of level L whose timer has elapsed (a level-1 Shotgun right after it was
\* acquired) it spawns 2 + (L-1)*2 pellets and no default Bullet.
C10_AutoFire == [][C10_Step]_vars

\* the auto-fire tick right after the first acquisition, a level-1 Shotgun
C10_Witness ==
    /\ calls.n = 1 /\ calls.types = {"Shotgun"}
    /\ fired.ran /\ fired.pellets = 2 /\ fired.bullets = 0
    /\ inventory.weapons[1].timer = inventory.weapons[1].cooldown

Hits(id) == IF id \in DOMAIN hitlog THEN hitlog[id] ELSE <<>>
Targets(id) == {Hits(id)[k] : k \in DOMAIN Hits(id)}

FinitePierce(id) ==
    /\ IsWeaponBullet(world, id)
    /\ world[id].pierce0 # NoPierce /\ world[id].pierce0 # PierceInf

C4_NoRehit ==
    \A id \in DOMAIN world :
        (Exists(world, id) /\ world[id].hitlist) =>
            /\ Cardinality(Targets(id)) = Len(Hits(id))
            /\ Targets(id) = world[id].hits

Names(m, a, b) == {m.ev.entity_a, m.ev.entity_b} = {a, b}

\* a pair that a handler has resolved in two frames, the target alive throughout
C4_Witness ==
    \E id, target \in DOMAIN world :
        /\ Exists(world, id) /\ world[id].hitlist
        /\ IsEnemy(world, target) /\ world[target].health > 0
        /\ target \in world[id].hits
        /\ \E j, k \in DOMAIN msgs :
            /\ msgs[j].age = 1 /\ msgs[k].age = 0
            /\ Names(msgs[j], id, target) /\ Names(msgs[k], id, target)
            /\ "enemy_collision_handler" \in msgs[j].readBy
            /\ "enemy_collision_handler" \in msgs[k].readBy

KilledInStep(id) ==
    /\ IsEnemy(world, id) /\ world[id].health > 0
    /\ id \in DOMAIN world' /\ world'[id].kind = "enemy" /\ world'[id].health <= 0

C5_Step ==
    (boss_state.active /\ boss_state'.active /\ \E id \in DOMAIN world : KilledInStep(id)) =>
        /\ \A id \in DOMAIN world :
            KilledInStep(id) => game_data'.score >= game_data.score + world[id].score_value
        /\ game_data'.experience = game_data.experience
        /\ game_data'.player_level = game_data.player_level
        /\ game_data'.upgrading = game_data.upgrading

\* C5: while BossState.active, a step that kills a regular enemy (by any damage
\* source) adds its score_value to the score and leaves experience, player_level
\* and upgrading as they were.
C5_NoExperienceInBossFight == [][C5_Step]_vars

BossBehaviorRuns == "boss_behavior" \notin ran /\ "boss_behavior" \in ran'

C6_Step ==
    BossBehaviorRuns =>
        \A id \in DOMAIN world :
            (IsBoss(world, id) /\ world[id].entered) =>
                LET h == world[id].health
                    m == world[id].max_health
                    p == world'[id].phase
                IN  /\ p = 1 <=> 10 * h > 6 * m
                    /\ p = 2 <=> (10 * h <= 6 * m /\ 10 * h > 3 * m)
                    /\ p = 3 <=> 10 * h <= 3 * m
                    /\ m = 1000 =>
                        /\ (h >= 601 /\ h <= 1000) => p = 1
                        /\ (h >= 301 /\ h <= 600) => p = 2
                        /\ (h >= 0 /\ h <= 300) => p = 3

\* C6: the phase boss_behavior assigns is 1 when health/max_health > 0.6, 2 when the
\* ratio is in (0.3, 0.6], and 3 otherwise; for max_health 1000 that is phase 1 for
\* health 601..1000, phase 2 for 301..600 and phase 3 for 0..300.
C6_PhaseBands == [][C6_Step]_vars

C6_Witness ==
    /\ "boss_behavior" \in ran
    /\ \E id \in DOMAIN world :
        /\ IsBoss(world, id) /\ world[id].max_health = 1000
        /\ world[id].health = 600 /\ world[id].phase = 2

\* C7: at the end of every tick (every system of the frame has run) the phase of
\* every living boss is the phase of its current health ratio.
C7_PhaseCurrentAtTickEnd ==
    ran = Systems =>
        \A id \in DOMAIN world :
            (IsBoss(world, id) /\ world[id].health > 0) =>
                world[id].phase = (IF 10 * world[id].health > 6 * world[id].max_health THEN 1
                                   ELSE IF 10 * world[id].health > 3 * world[id].max_health THEN 2
                                   ELSE 3)

HitsIn(hl, id) == IF id \in DOMAIN hl THEN hl[id] ELSE <<>>

\* what the step has added to the log of a projectile
NewHits(id) == SubSeq(HitsIn(hitlog', id), Len(HitsIn(hitlog, id)) + 1, Len(HitsIn(hitlog', id)))

Times(seq, e) == Cardinality({k \in DOMAIN seq : seq[k] = e})

InBlast(r, e) ==
    DistSq(world[e].pos, world'[r].pos) <= world[r].explosion_radius * world[r].explosion_radius

\* the rocket r explodes in this step of update_rocket_bullets or enemy_collision_handler
Explodes(r) ==
    /\ IsRocket(world, r)
    /\ ran' \ ran \subseteq {"update_rocket_bullets", "enemy_collision_handler"}
    /\ ran' # ran
    /\ \/ r \in cmds'.despawn \ cmds.despawn
       \/ NewHits(r) # <<>>

C11_Step ==
    \A r \in DOMAIN world : Explodes(r) =>
        /\ {NewHits(r)[k] : k \in DOMAIN NewHits(r)}
                = {e \in DOMAIN world : IsEnemy(world, e) /\ InBlast(r, e)}
        /\ \A e \in DOMAIN world : IsEnemy(world, e) =>
                world'[e].health = world[e].health - world[r].damage * Times(NewHits(r), e)

\* C11: every explosion of a rocket (on contact with an enemy, on leaving the play
\* area, on timing out) damages exactly the enemies whose centre is at squared
\* distance <= explosion_radius^2 from the rocket, the boundary included, each by
\* the rocket's full damage, and no other enemy.
C11_ExplosionSet == [][C11_Step]_vars

\* a rocket has exploded with an enemy exactly explosion_radius away, which took the
\* full damage, and another enemy out of reach, which took none
C11_Witness ==
    \E r \in DOMAIN world : \E e, f \in DOMAIN world :
        /\ IsRocket(world, r) /\ r \in cmds.despawn
        /\ IsEnemy(world, e) /\ IsEnemy(world, f)
        /\ DistSq(world[e].pos, world[r].pos) = world[r].explosion_radius * world[r].explosion_radius
        /\ Times(HitsIn(hitlog, r), e) = 1
        /\ world[e].health = world[e].max_health - world[r].damage
        /\ DistSq(world[f].pos, world[r].pos) > world[r].explosion_radius * world[r].explosion_radius
        /\ world[f].health = world[f].max_health


IsTarget(e) == IsEnemy(world, e) \/ IsBoss(world, e)

\* where the chain h stands before its k-th hop
ChainPos(c, h, k) == IF k = 1 THEN world[c].pos ELSE world[h[k - 1]].pos

\* the targets the k-th hop of the chain h may go to
Reachable(c, h, k) ==
    {e \in DOMAIN world :
        /\ IsTarget(e)
        /\ \A j \in 1..(k - 1) : h[j] # e
        /\ DistSq(world[e].pos, ChainPos(c, h, k)) <= world[c].range * world[c].range}

Greedy(c, h) ==
    /\ Len(h) <= world[c].jumps
    /\ \A k \in DOMAIN h :
        /\ h[k] \in Reachable(c, h, k)
        /\ \A e \in Reachable(c, h, k) :
                DistSq(world[h[k]].pos, ChainPos(c, h, k)) <= DistSq(world[e].pos, ChainPos(c, h, k))
    /\ Len(h) < world[c].jumps => Reachable(c, h, Len(h) + 1) = {}

C12_Step ==
    \A c \in DOMAIN world :
        (IsCast(world, c) /\ "resolve_lightning_casts" \in ran' \ ran) =>
            /\ Greedy(c, NewHits(c))
            /\ \A e \in DOMAIN world : IsTarget(e) =>
                    /\ Times(NewHits(c), e) <= 1
                    /\ world'[e].health = world[e].health - world[c].damage * Times(NewHits(c), e)

\* C12: resolve_lightning_casts builds the chain greedily from the cast position:
\* every hop goes to a nearest target (enemy or boss) not yet in the chain and within
\* range of the current chain position, the chain stops when there is none or after
\* `jumps` hops, its targets are distinct, and each receives `damage` exactly once
\* while no other target is damaged.
C12_GreedyChain == [][C12_Step]_vars

\* a chain of exactly `jumps` targets, a boss among them, has been resolved while a
\* further target within range of its end was left out
C12_Witness ==
    \E c \in DOMAIN world :
        /\ IsCast(world, c) /\ c \in cmds.despawn
        /\ Len(HitsIn(hitlog, c)) = world[c].jumps
        /\ \E k \in DOMAIN HitsIn(hitlog, c) : IsBoss(world, HitsIn(hitlog, c)[k])
        /\ \E e \in DOMAIN world :
            /\ IsEnemy(world, e) /\ Times(HitsIn(hitlog, c), e) = 0
            /\ world[e].health = world[e].max_health
            /\ DistSq(world[e].pos, world[HitsIn(hitlog, c)[world[c].jumps]].pos)
                    <= world[c].range * world[c].range


\* the enemies spawn_enemies has spawned, in the world or still queued
Spawned ==
    {world[id] : id \in {i \in DOMAIN world : IsEnemy(world, i)}}
        \cup {cmds.spawn[k] : k \in {i \in DOMAIN cmds.spawn : cmds.spawn[i].kind = "enemy"}}

\* C13: with d = 1 + (player_level - 1) * 0.3, an enemy spawned at player level L has
\* health = ceil(base_health * d) and score_value = floor(base_score * d); at L = 7 a
\* Diamond has health 6 and score_value 280.
C13_Scaling ==
    \A e \in Spawned :
        /\ e.max_health = (base_health(e.enemy_type) * Tenths(game_data.player_level) + 9) \div 10
        /\ e.score_value = (base_score(e.enemy_type) * Tenths(game_data.player_level)) \div 10


SpawnedNow == SubSeq(cmds'.spawn, Len(cmds.spawn) + 1, Len(cmds'.spawn))

C15_Step ==
    ("spawn_enemies" \in ran' \ ran /\ boss_state.active) =>
        /\ spawn_timer'.interval = 2 * SpawnInterval(game_data.player_level, FALSE)
        /\ Len(SpawnedNow) <= 1
        /\ SpawnedNow # <<>> =>
                spawn_timer.timer + Delta >= 2 * SpawnInterval(game_data.player_level, FALSE)
        /\ \A k \in DOMAIN SpawnedNow :
                SpawnedNow[k].kind = "enemy" /\ SpawnedNow[k].enemy_type \notin EliteTypes

\* C15: while BossState.active is true, spawn_enemies uses twice the normal spawn
\* interval, spawns at most one enemy when the interval has elapsed (no second or
\* third extra enemy) and never an elite type.
C15_BossFightSpawns == [][C15_Step]_vars

\* during a boss fight the doubled interval has elapsed and one enemy was spawned
C15_Witness ==
    /\ boss_state.active
    /\ "spawn_enemies" \in ran
    /\ spawn_timer.timer = 0
    /\ spawn_timer.interval = 2 * SpawnInterval(game_data.player_level, FALSE)
    /\ Len(cmds.spawn) = 1
    /\ cmds.spawn[1].enemy_type \in {"Small", "Diamond"}


BossFalls(b) == IsBoss(world, b) /\ world[b].health > 0 /\ world'[b].health <= 0

C14_Step ==
    /\ \A b \in DOMAIN world : BossFalls(b) =>
            /\ game_data'.score >= game_data.score + world[b].score_value
            /\ ~boss_state'.active
            /\ b \in cmds'.despawn
    /\ frame' # frame =>
            /\ \A b \in DOMAIN world' : IsBoss(world', b) => world'[b].health > 0
            /\ (\E b \in DOMAIN world : IsBoss(world, b) /\ world[b].health <= 0)
                    => ~boss_state'.active

\* C14: whenever a boss's health becomes <= 0 (by a bullet, a weapon bullet or a
\* lightning chain), the same step awards its score_value, clears BossState.active and
\* queues its despawn, and when the tick ends the boss is gone and BossState.active is
\* still false.
C14_BossDefeat == [][C14_Step]_vars

\* a tick has ended in which a single hit of a projectile brought the boss to zero
C14_Witness ==
    /\ frame > 0
    /\ ~boss_state.active
    /\ \A id \in DOMAIN world : ~IsBoss(world, id)
    /\ game_data.score >= ExpBelow(10) + TriangleFighterScore
    /\ \E id \in DOMAIN hitlog : Len(hitlog[id]) = 1 /\ world[id].kind = "none"
            /\ world[hitlog[id][1]].kind = "none" /\ hitlog[id][1] = 4


\* the systems of the scenarios that move colliders, and those that resolve combat
Movers == {"update_weapon_bullets", "update_rocket_bullets", "boss_behavior"}
Handlers == {"enemy_collision_handler", "boss_collision_handler"}

C16_Step ==
    /\ "detect_collisions" \in ran' \ ran => (Movers \cap sched) \subseteq ran
    /\ \A h \in Handlers : h \in ran' \ ran =>
            /\ "detect_collisions" \in ran
            /\ \A k \in DOMAIN msgs : h \notin msgs[k].readBy => msgs[k].age = 0

\* C16: within every tick detect_collisions runs after all position-updating systems
\* of the tick and before every combat-resolution system reads CollisionEvents, so a
\* handler only ever reads events of the current tick.
C16_DetectionOrder == [][C16_Step]_vars


\* the tick began with the upgrade selection pending: no system under not_upgrading
\* has run in it
FrozenTick == game_data.upgrading /\ gates \subseteq UngatedPlugins

\* what the claim lists: positions, timers, health, score, lives and shield
Simulation(w, gd, st) ==
    <<[id \in DOMAIN w |-> <<w[id].kind, w[id].pos, w[id].health, w[id].lifetime,
                              w[id].attack_timer, w[id].shoot_timer>>],
      gd.score, gd.lives, gd.shield, gd.play_time, st.timer>>

C17_Step ==
    (FrozenTick /\ game_data'.upgrading) =>
        Simulation(world', game_data', spawn_timer') = Simulation(world, game_data, spawn_timer)

\* C17: while GameData.upgrading is true in the Playing state the simulation is
\* frozen from tick to tick: positions, timers (spawn, shoot, attack, play time),
\* enemy and boss health, score, lives and shield keep their values.
C17_FrozenWhileUpgrading == [][C17_Step]_vars


DeadEnemies == {id \in DOMAIN world : IsEnemy(world, id) /\ world[id].health <= 0}

\* the first state of a tick: the Commands of the tick before have been applied
TickStart == ran = {} /\ cmds = NoCommands

\* C18: an enemy whose health has come to <= 0, by a bullet, a weapon bullet, a rocket
\* explosion or a lightning chain, is queued for despawn by the system that damaged it,
\* and no enemy with health <= 0 exists at the start of a tick.
C18_DeadEnemiesLeave ==
    /\ DeadEnemies \subseteq cmds.despawn
    /\ TickStart => DeadEnemies = {}

\* a later tick begins without an enemy that was hit in the tick before
C18_Witness ==
    /\ frame > 0
    /\ TickStart
    /\ \E projectile \in DOMAIN hitlog : \E k \in DOMAIN hitlog[projectile] :
            world[hitlog[projectile][k]] = Blank


\* the hits the step adds to the history
NewPlayerHits == SubSeq(player_hits', Len(player_hits) + 1, Len(player_hits'))

ShieldFirst(hit) ==
    IF hit.shield > 0
    THEN hit.shield_after = hit.shield - 1 /\ hit.lives_after = hit.lives
    ELSE hit.lives_after = hit.lives - 1 /\ hit.shield_after = 0

LivesLost(hits) == Cardinality({k \in DOMAIN hits : hits[k].shield = 0})

C19_Step ==
    /\ \A k \in DOMAIN NewPlayerHits : ShieldFirst(NewPlayerHits[k])
    /\ game_data'.lives = game_data.lives - LivesLost(NewPlayerHits)

\* C19: a hit on a non-invincible player by an enemy or an enemy bullet takes the shield
\* first: with shield > 0 the shield goes down by 1 and lives stays, otherwise lives
\* goes down by 1; lives goes down only by the hits that found no shield.
C19_ShieldFirst == [][C19_Step]_vars

\* one run of the handler in which the last shield took a hit and a life the next
C19_Witness ==
    /\ Len(player_hits) = 2
    /\ player_hits[1].shield = 1 /\ player_hits[1].lives_after = player_hits[1].lives
    /\ player_hits[2].shield = 0 /\ player_hits[2].lives_after = player_hits[2].lives - 1
    /\ game_data.shield = 0


\* the caps and the starting values of a run, as the saved upgrade levels give them
UpgradesApplied(gd, sd) ==
    /\ gd.max_lives = 5 + sd.hull_upgrade_level
    /\ gd.max_shield = 4 + sd.shield_upgrade_level * 2
    /\ gd.lives = Min(3, gd.max_lives)
    /\ gd.shield = Min(0, gd.max_shield)

RunStarts == state # "Playing" /\ state' = "Playing"

C20_Step == RunStarts => UpgradesApplied(game_data', save_data')

\* C20: whichever way a run is started (Start button, keyboard, Restart), GameData has
\* the saved permanent upgrade levels applied when the run begins: max_lives and
\* max_shield, and the clamped lives and shield, follow hull_upgrade_level and
\* shield_upgrade_level.
C20_UpgradesAtRunStart == [][C20_Step]_vars


BossBullets(w, c) ==
    Cardinality({id \in DOMAIN w : w[id].kind = "boss_bullet"})
        + Cardinality({k \in DOMAIN c.spawn : c.spawn[k].kind = "boss_bullet"})

C21_Step ==
    \A id \in Bosses(world) \cap Bosses(world') :
        /\ ~world[id].entered =>
                /\ world'[id].attack_timer = world[id].attack_timer
                /\ BossBullets(world', cmds') = BossBullets(world, cmds)
                /\ world'[id].entered => world[id].pos[2] <= BossEntryTargetY
        /\ world[id].entered => world'[id].entered

\* C21: while a boss has not entered, its attack_timer keeps its value and no boss
\* bullet is spawned; entered becomes true only when the boss's y has come down to the
\* resting position, and never goes back to false.
C21_Entrance == [][C21_Step]_vars

\* a boss that slid down to the resting position and entered with its timer untouched
C21_Witness ==
    /\ frame > 0
    /\ \E id \in Bosses(world) :
            /\ world[id].entered
            /\ world[id].pos[2] = BossEntryTargetY
            /\ world[id].move_timer = 0
            /\ world[id].attack_timer = 2000


\* the enemies and bosses the step brings from health > 0 to health <= 0
NewlyKilled ==
    {id \in DOMAIN world :
        /\ IsEnemy(world, id) \/ IsBoss(world, id)
        /\ world[id].health > 0
        /\ world'[id].health <= 0}

RECURSIVE Rewards(_)
Rewards(ids) ==
    IF ids = {} THEN 0
    ELSE LET id == CHOOSE id \in ids : TRUE
         IN  world[id].score_value + Rewards(ids \ {id})

C22_Step == game_data'.score - game_data.score <= Rewards(NewlyKilled)

\* C22: every enemy and every boss pays its kill reward at most once: the score a step
\* adds is at most the score_value of the entities that step kills, so nothing is paid
\* for an entity that was already dead or for a second hit on it in the same tick.
C22_RewardOnce == [][C22_Step]_vars


\* a Bullet, or a WeaponBullet spawned without a Pierce component
Unpiercing(id) ==
    \/ IsBullet(world, id)
    \/ IsWeaponBullet(world, id) /\ world[id].pierce0 = NoPierce

\* C23: a projectile without a Pierce component resolves at most one hit in its
\* lifetime: a Bullet or a pellet damages at most one target, and a rocket explodes at
\* most once, so no target is in its blast twice, however many collision events of one
\* tick name the projectile.
C23_OneHit ==
    \A id \in DOMAIN world :
        Unpiercing(id) =>
            IF world[id].rocket
            THEN \A e \in DOMAIN world : Times(Hits(id), e) <= 1
            ELSE Len(Hits(id)) <= 1


\* the step is a run of the system
Runs(sys) == sys \in ran' \ ran

\* the ways the selection ends: an option is selected, or check_level_up finds no
\* player or nothing to offer
SelectionEnds ==
    \/ Runs("handle_upgrade_selection")
    \/ /\ Runs("check_level_up")
       /\ \/ Cardinality(Players(world)) # 1
          \/ get_upgrade_options(game_data, inventory) = {}

C24_Step == (game_data.upgrading /\ ~game_data'.upgrading) => SelectionEnds

\* C24: once a level-up has set upgrading, it is cleared only by the selection of an
\* upgrade option (or because there is no player or no option); pausing and resuming
\* while the selection is pending leaves it pending.
C24_ChoiceKept == [][C24_Step]_vars


\* between two ticks: every system of the tick has run and its Commands are applied
TickBoundary == ran = {} /\ cmds = NoCommands

\* C28: at every tick boundary there is at most one Boss entity, and
\* BossState.active is true exactly when a Boss entity exists.
C28_OneBoss ==
    TickBoundary =>
        /\ Cardinality(Bosses(world)) <= 1
        /\ boss_state.active <=> Bosses(world) # {}

\* the boss that check_boss_spawn queued has arrived and is on its way in
C28_Witness ==
    /\ TickBoundary
    /\ boss_state.active
    /\ \E id \in Bosses(world) : ~world[id].entered


\* check_boss_spawn has queued a Boss
BossQueued(c) == \E k \in DOMAIN c.spawn : c.spawn[k].kind = "boss"

\* the boss level of a player level: the last multiple of 10 reached
BossLevelOf(player_level) == (player_level \div 10) * 10

\* check_boss_spawn runs in a run that is owed the boss of its level
BossDue ==
    /\ Runs("check_boss_spawn")
    /\ BossLevelOf(game_data.player_level) > 0
    /\ BossLevelOf(game_data.player_level) \notin run_bosses
    /\ Bosses(world) = {}
    /\ ~BossQueued(cmds)

C25_Step == BossDue => BossQueued(cmds')

\* C25: in every run, the second and later ones included, a boss is triggered when
\* the player level is at a multiple of 10 whose boss the run has not yet had.
C25_BossEveryRun == [][C25_Step]_vars

GameplayKinds ==
    {"player", "enemy", "boss", "bullet", "enemy_bullet", "boss_bullet", "weapon_bullet",
     "cast", "power_up"}

IdleStates == {"Menu", "GameOver", "Recharge"}

\* C26: once Menu, GameOver or Recharge is entered, no gameplay entity of the finished
\* run remains: no player, enemy, boss, bullet, weapon bullet, lightning cast or
\* power-up.
C26_NothingLeft ==
    state \in IdleStates => \A id \in DOMAIN world : world[id].kind \notin GameplayKinds

\* the step leaves the state of the tick in which lives has reached 0
LeavesDeadTick == state = "Playing" /\ game_data.lives = 0 /\ state' # state

C27_Step ==
    /\ LeavesDeadTick => state' = "GameOver"
    /\ (state' = "Playing" /\ ran' = {}) => game_data'.lives > 0

\* C27: no tick starts in Playing with lives = 0, and the tick in which lives reaches
\* 0 ends with the transition to GameOver, whatever else requests a state.
C27_DeadIsOver == [][C27_Step]_vars


\* C29: in every GameData the game reaches, lives <= max_lives, shield <= max_shield
\* and high_score >= score: after run starts, hits, pickups, upgrade selections and
\* score awards.
C29_CountersInRange ==
    /\ game_data.lives <= game_data.max_lives
    /\ game_data.shield <= game_data.max_shield
    /\ game_data.high_score >= game_data.score

\* at full lives and shield, the power-up has been picked up, the kill has been scored
\* and the level-up selection has been made
C29_Witness ==
    /\ state = "Playing"
    /\ game_data.lives = game_data.max_lives
    /\ game_data.shield = game_data.max_shield
    /\ game_data.player_level = 2
    /\ ~game_data.upgrading
    /\ \A id \in DOMAIN world : world[id].kind \notin {"power_up", "enemy"}


\* the requests sent whose result has not been handled
Outstanding ==
    recharge.pending + Len(recharge.results) + Len(recharge.result_events)

\* C30: at most one recharge request is in flight, from the moment it is sent until
\* its result has been drained and handled, also when the player leaves the Recharge
\* screen and comes back before the result arrives; and every result pushed on the
\* result queue is handled exactly once.
C30_OneRequest ==
    /\ Outstanding <= 1
    /\ recharge.pushed = recharge.handled + Len(recharge.results) + Len(recharge.result_events)


====
